---- MODULE Spec2Model ----
(***************************************************************************)
(* State-machine model of the price synchronisation app:                   *)
(*   - updateShopifyProduct        (src/app/shopify.sync.js)               *)
(*   - createShopifyProductFromData (src/app/routes/app.api.import.jsx)    *)
(*   - fetchStockXData and the token helpers (src/app/stockx.server.js)    *)
(* Strings the code parses or builds (sizes, prices, SKUs) are tuples of   *)
(* one-character strings, so that parsing and formatting are computed.     *)
(* Decimal numbers are integers scaled by Scale; storefront prices are     *)
(* integers in cents ("159.90" is 15990).                                  *)
(***************************************************************************)
EXTENDS Integers, Sequences, FiniteSets, TLC

VARIABLES
    snap,   \* the ProductPriceSnapshot handed to the import or the update flow
    shop,   \* the storefront product the flow works on
    cat,    \* the storefront catalog: products and collections
    sy,     \* updateShopifyProduct: position and locals of the run
    im,     \* createShopifyProductFromData: position and locals of the run
    tok,    \* the token store: the module's variables and the token file
    fx,     \* fetchStockXData: position, locals and what the call has sent
    au,     \* the token operations: the last one, its answer and its return value
    mk,     \* calculateMarkupPrice: two base prices and the prices returned for them
    sz,     \* fetchVariantPrice: a variant descriptor and the sizes computed for it
    rc,     \* fetchStockXData calls running side by side on one token store
    ep,     \* the update_prices action: its form data, position and counters
    ld      \* the product loader: an inventory SKU and the SKU read from it

vars == <<snap, shop, cat, sy, im, tok, fx, au, mk, sz, rc, ep, ld>>

(***************************************************************************)
(* Bounds of the model                                                     *)
(***************************************************************************)
MaxQuotes == 2
MaxExisting == 2
MaxRuns == 2

(***************************************************************************)
(* Strings and numbers                                                     *)
(***************************************************************************)
Scale == 100

Digits == <<"0", "1", "2", "3", "4", "5", "6", "7", "8", "9">>

IsDigit(c) == \E i \in 1..10 : Digits[i] = c

DigitVal(c) == (CHOOSE i \in 1..10 : Digits[i] = c) - 1

IsSpace(c) == c = " "

\* Length of the longest prefix of s, starting at position i, made of digits.
RECURSIVE DigitRun(_, _)
DigitRun(s, i) ==
    IF i <= Len(s) /\ IsDigit(s[i]) THEN 1 + DigitRun(s, i + 1) ELSE 0

\* Value of the digits s[i..i+n-1] read as a natural number.
RECURSIVE DigitsValue(_, _, _)
DigitsValue(s, i, n) ==
    IF n = 0 THEN 0
    ELSE 10 * DigitsValue(s, i, n - 1) + DigitVal(s[i + n - 1])

\* Value of the fraction digits s[i..i+n-1], scaled by Scale (two digits kept).
FractionValue(s, i, n) ==
    IF n = 0 THEN 0
    ELSE IF n = 1 THEN 10 * DigitVal(s[i])
    ELSE 10 * DigitVal(s[i]) + DigitVal(s[i + 1])

NaN == -1

\* First position >= i of s that is not white space.
RECURSIVE SkipSpace(_, _)
SkipSpace(s, i) ==
    IF i <= Len(s) /\ IsSpace(s[i]) THEN SkipSpace(s, i + 1) ELSE i

\* JavaScript parseFloat on an unsigned decimal: leading white space, digits,
\* an optional '.' and fraction digits; NaN when no number starts the string.
parseFloat(s) ==
    LET i == SkipSpace(s, 1)
        n == DigitRun(s, i)
        dot == i + n <= Len(s) /\ s[i + n] = "."
        f == IF dot THEN DigitRun(s, i + n + 1) ELSE 0
    IN  IF n = 0 /\ f = 0 THEN NaN
        ELSE Scale * DigitsValue(s, i, n) + FractionValue(s, i + n + 1, f)

\* s.split(" ")[0]: the part of s before its first space.
RECURSIVE SplitFirst(_)
SplitFirst(s) ==
    IF s = <<>> \/ s[1] = " " THEN <<>> ELSE <<s[1]>> \o SplitFirst(Tail(s))

\* s.replace(/\s/g, ""): s without white space.
RECURSIVE StripWhitespace(_)
StripWhitespace(s) ==
    IF s = <<>> THEN <<>>
    ELSE IF IsSpace(s[1]) THEN StripWhitespace(Tail(s))
    ELSE <<s[1]>> \o StripWhitespace(Tail(s))

\* Decimal digits of a natural number.
RECURSIVE NatToString(_)
NatToString(n) ==
    IF n < 10 THEN <<Digits[n + 1]>>
    ELSE NatToString(n \div 10) \o <<Digits[(n % 10) + 1]>>

NoAsk == <<"N", "o", " ", "A", "s", "k">>

\* `${ask} EUR`
FormatAsk(ask) == NatToString(ask) \o <<" ", "E", "U", "R">>

(***************************************************************************)
(* MarkupEngine                                                            *)
(***************************************************************************)
\* price.toFixed(2) of a price given in cents.
toFixed(cents) ==
    NatToString(cents \div 100)
        \o <<".", Digits[((cents % 100) \div 10) + 1], Digits[(cents % 10) + 1]>>

calculateMarkupPrice_Floors(basePrice) ==
    LET markup == IF basePrice <= 100 * Scale THEN 40
                  ELSE IF basePrice <= 200 * Scale THEN 55
                  ELSE IF basePrice <= 400 * Scale THEN 75
                  ELSE 110
        price == basePrice + markup * Scale
    IN  ((price \div (5 * Scale)) * 5) * 100 - 10

calculateMarkupPrice_SplitTier(basePrice) ==
    LET markup == IF basePrice <= 50 * Scale THEN 55
                  ELSE IF basePrice <= 200 * Scale THEN 40
                  ELSE IF basePrice <= 400 * Scale THEN 75
                  ELSE 110
        price == basePrice + markup * Scale
        rounded == ((2 * price + 5 * Scale) \div (10 * Scale)) * 5
    IN  rounded * 100 - 10

\* basePrice is scaled by Scale; the result is the price in cents.
calculateMarkupPrice(basePrice) ==
    LET markup == IF basePrice <= 100 * Scale THEN 40
                  ELSE IF basePrice <= 200 * Scale THEN 55
                  ELSE IF basePrice <= 400 * Scale THEN 75
                  ELSE 110
        price == basePrice + markup * Scale
        \* Math.round(price / 5) * 5
        rounded == ((2 * price + 5 * Scale) \div (10 * Scale)) * 5
    IN  rounded * 100 - 10

(***************************************************************************)
(* Sequence helpers                                                        *)
(***************************************************************************)
Range(s) == {s[i] : i \in 1..Len(s)}

Contains(s, x) == \E i \in 1..Len(s) : s[i] = x

\* Array.prototype.filter with the predicate given as the set of kept elements.
FilterIn(s, keep) == SelectSeq(s, LAMBDA x : x \in keep)

\* The comparator (a, b) => key(a) - key(b); a NaN result counts as 0.
Compare(ka, kb) == IF ka = NaN \/ kb = NaN THEN 0 ELSE ka - kb

\* The end of the run that starts the array: the elements go on while they
\* compare like the first two, strictly descending or not descending.
RunEnd(s, key, descending, idx) ==
    LET Order(i) == Compare(key[s[i]], key[s[i - 1]])
        ends == {i \in idx..Len(s) :
                    (descending /\ Order(i) >= 0) \/ (~descending /\ Order(i) < 0)}
    IN  IF ends = {} THEN Len(s)
        ELSE (CHOOSE i \in ends : \A j \in ends : i <= j) - 1

Reverse(s) == [i \in 1..Len(s) |-> s[Len(s) + 1 - i]]

\* The number of elements of sorted (a sorted run) that the binary search
\* leaves in front of the pivot; left and right count elements.
RECURSIVE InsertionPoint(_, _, _, _, _)
InsertionPoint(sorted, key, pivot, left, right) ==
    IF left >= right THEN left
    ELSE LET mid == left + ((right - left) \div 2)
         IN  IF Compare(key[pivot], key[sorted[mid + 1]]) < 0
             THEN InsertionPoint(sorted, key, pivot, left, mid)
             ELSE InsertionPoint(sorted, key, pivot, mid + 1, right)

\* Binary insertion of the elements of rest, one after the other, into
\* sorted: the first half of rest, then the second half into the result.
RECURSIVE BinaryInsertion(_, _, _)
BinaryInsertion(sorted, rest, key) ==
    IF rest = <<>> THEN sorted
    ELSE IF Len(rest) = 1
    THEN LET at == InsertionPoint(sorted, key, rest[1], 0, Len(sorted))
         IN  SubSeq(sorted, 1, at) \o <<rest[1]>> \o SubSeq(sorted, at + 1, Len(sorted))
    ELSE LET half == Len(rest) \div 2
         IN  BinaryInsertion(BinaryInsertion(sorted, SubSeq(rest, 1, half), key),
                             SubSeq(rest, half + 1, Len(rest)), key)

\* Array.prototype.sort by the numeric key function `key`, as the engine sorts
\* an array of fewer than 64 elements: the run the array starts with is taken
\* as it is (reversed when strictly descending) and the other elements are
\* put in by binary insertion. With keys that are all numbers this is the
\* stable ascending sort; a NaN key compares equal to every other key, and the
\* order is then the one these steps give.
StableSort(s, key) ==
    IF Len(s) < 2 THEN s
    ELSE LET descending == Compare(key[s[2]], key[s[1]]) < 0
             runLength == RunEnd(s, key, descending, 3)
             run == SubSeq(s, 1, runLength)
         IN  BinaryInsertion(IF descending THEN Reverse(run) ELSE run,
                             SubSeq(s, runLength + 1, Len(s)), key)

\* All sequences of at most n elements of S.
RECURSIVE BoundedSeqs(_, _)
BoundedSeqs(S, n) ==
    IF n = 0 THEN {<<>>}
    ELSE LET shorter == BoundedSeqs(S, n - 1)
         IN  shorter \cup {a \o <<x>> : a \in {b \in shorter : Len(b) = n - 1},
                                         x \in S}

(***************************************************************************)
(* Inputs: snapshots and storefront products                               *)
(***************************************************************************)
\* "43", "40", "42,5", "42 2/3" and the "N/A" of a variant without size chart
SizePool ==
    { <<"4", "3">>, <<"4", "0">>, <<"4", "2", ",", "5">>,
      <<"4", "2", " ", "2", "/", "3">>, <<"N", "/", "A">> }

\* The value looked up for a storefront variant that has no selected option
\* named "Size (EU)": undefined or null, which no size string equals, the
\* empty string <<>> included.
NoSize == <<"undefined">>

Asks == {95, 120}

QuotePrices == {NoAsk} \cup {FormatAsk(a) : a \in Asks}

Quotes == [size_eu : SizePool, price : QuotePrices]

\* "FV-1"
ProductSku == <<"F", "V", "-", "1">>

\* A snapshot whose product_info.brand is missing (undefined, null or "").
NoBrand == ""

\* The snapshot of the product "FV-1" with the quotes q.
Snapshot(q, brand) ==
    [product_info |-> [sku |-> ProductSku, title |-> "Dunk", brand |-> brand],
     variants |-> q]

\* The marketplace lists one variant per size.
SnapshotsOf(sizes, brands) ==
    { Snapshot(q, b) :
        q \in {v \in BoundedSeqs([size_eu : sizes, price : QuotePrices], MaxQuotes) :
                  \A i, j \in 1..Len(v) : i # j => v[i].size_eu # v[j].size_eu},
        b \in brands }

Snapshots(brands) == SnapshotsOf(SizePool, brands)

\* A stale price ("99.90") and the price a previous sync of ask 95 left.
ExistingPrices == {9990, calculateMarkupPrice(95 * Scale)}

\* Existing variants carry pairwise distinct option values.
VariantListsOf(sizes) ==
    { v \in BoundedSeqs([size : sizes \cup {NoSize}, price : ExistingPrices],
                        MaxExisting) :
        \A i, j \in 1..Len(v) : i # j => v[i].size # v[j].size }

ExistingVariantLists == VariantListsOf(SizePool)

\* The "Size (EU)" values of the variants that have the option, in order.
SizedValues(vs) ==
    LET sized == SelectSeq(vs, LAMBDA v : v.size # NoSize)
    IN  [i \in 1..Len(sized) |-> sized[i].size]

\* The storefront product: its variants in display order, the value list of
\* its "Size (EU)" option, and the next variant id the storefront hands out.
Storefront(v) ==
    [variants |-> [i \in 1..Len(v) |->
                      [id |-> i, size |-> v[i].size, price |-> v[i].price,
                       sku |-> <<>>, inv |-> TRUE]],
     optionValues |-> SizedValues(v),
     nextId |-> Len(v) + 1]

(***************************************************************************)
(* updateShopifyProduct: pure steps                                        *)
(***************************************************************************)
\* Mutant: the "No Ask" quotes are not skipped.
RECURSIVE PreparedVariants_KeepsNoAsk(_, _)
PreparedVariants_KeepsNoAsk(sku, quotes) ==
    IF quotes = <<>> THEN <<>>
    ELSE << [size |-> quotes[1].size_eu,
             price |-> calculateMarkupPrice(parseFloat(SplitFirst(quotes[1].price))),
             sku |-> sku \o <<"-">> \o StripWhitespace(quotes[1].size_eu)] >>
         \o PreparedVariants_KeepsNoAsk(sku, Tail(quotes))

\* The quotes with an ask, mapped to {options, price, sku}.
RECURSIVE PreparedVariants(_, _)
PreparedVariants(sku, quotes) ==
    IF quotes = <<>> THEN <<>>
    ELSE LET v == quotes[1]
             rest == PreparedVariants(sku, Tail(quotes))
         IN  IF v.price = NoAsk THEN rest
             ELSE << [size |-> v.size_eu,
                      price |-> calculateMarkupPrice(parseFloat(SplitFirst(v.price))),
                      sku |-> sku \o <<"-">> \o StripWhitespace(v.size_eu)] >>
                  \o rest

\* variantsForShopify: prepared, then sorted by parseFloat of the size.
VariantsForShopify(data) ==
    LET prepared == PreparedVariants(data.product_info.sku, data.variants)
    IN  StableSort(prepared, [x \in Range(prepared) |-> parseFloat(x.size)])

\* variants(first: 200)
VariantsPage == 200

FirstPage(vs) == SubSeq(vs, 1, IF Len(vs) < VariantsPage THEN Len(vs) ELSE VariantsPage)

\* Mutant: the option is looked up under a name no variant has.
ExistingSizeValues_WrongName(cur) == <<>>

\* A value that passes filter(Boolean) and `sizeVal &&`: an option value that
\* is not the empty string.
Truthy(size) == size # NoSize /\ size # <<>>

\* existingSizeValues
ExistingSizeValues(cur) ==
    LET values == [i \in 1..Len(cur) |-> cur[i].size]
    IN  FilterIn(values, {x \in Range(values) : Truthy(x)})

VariantsToCreate_All(vfs, cur) == vfs

\* variantsToCreate
VariantsToCreate(vfs, cur) ==
    FilterIn(vfs, {v \in Range(vfs) : ~Contains(ExistingSizeValues(cur), v.size)})

\* validNewSizes
ValidNewSizes(vfs) == [i \in 1..Len(vfs) |-> vfs[i].size]

\* Mutant: the existing sizes are compared with themselves, not with the valid
\* new sizes, so that nothing is stale.
VariantsToDelete_NothingStale(vfs, cur) ==
    FilterIn(cur, {v \in Range(cur) :
                     Truthy(v.size) /\ ~Contains(SizedValues(cur), v.size)})

VariantsToDelete_IncludesUnsized(vfs, cur) ==
    FilterIn(cur, {v \in Range(cur) : ~Contains(ValidNewSizes(vfs), v.size)})

\* variantsToDelete
VariantsToDelete(vfs, cur) ==
    FilterIn(cur, {v \in Range(cur) :
                     Truthy(v.size) /\ ~Contains(ValidNewSizes(vfs), v.size)})

\* vfs.find(v => v.options[0] === sizeValue), as the index of the first match.
FindSource(vfs, size) ==
    IF \E i \in 1..Len(vfs) : vfs[i].size = size
    THEN CHOOSE i \in 1..Len(vfs) :
            vfs[i].size = size /\ \A j \in 1..(i - 1) : vfs[j].size # size
    ELSE 0

\* matchedVariants: the fetched and the created variants that have a source.
MatchedVariants(all, vfs) ==
    LET SourceOf(v) == IF v.size = NoSize THEN 0 ELSE FindSource(vfs, v.size)
        found == SelectSeq(all, LAMBDA v : SourceOf(v) # 0)
    IN  [i \in 1..Len(found) |->
            [id |-> found[i].id, inv |-> found[i].inv,
             source |-> vfs[SourceOf(found[i])]]]

\* getNum: the first match of /(\d+[.,]?\d*)/, its ',' read as '.', or 0.
RECURSIVE FirstDigit(_, _)
FirstDigit(s, i) ==
    IF i > Len(s) THEN 0
    ELSE IF IsDigit(s[i]) THEN i
    ELSE FirstDigit(s, i + 1)

getNum(s) ==
    LET i == FirstDigit(s, 1)
        n == DigitRun(s, i)
        sep == i + n <= Len(s) /\ s[i + n] \in {".", ","}
        f == IF sep THEN DigitRun(s, i + n + 1) ELSE 0
    IN  IF i = 0 THEN 0
        ELSE Scale * DigitsValue(s, i, n) + FractionValue(s, i + n + 1, f)

SortedValues_Unsorted(values) == values

\* sortedValues
SortedValues(values) == StableSort(values, [x \in Range(values) |-> getNum(x)])

(***************************************************************************)
(* StorefrontGateway: the effect of the mutations on the product           *)
(***************************************************************************)
WithoutIds(vs, ids) == SelectSeq(vs, LAMBDA v : v.id \notin ids)

RECURSIVE NewValues(_, _)
NewValues(input, have) ==
    IF input = <<>> THEN <<>>
    ELSE IF Contains(have, input[1].size) THEN NewValues(Tail(input), have)
    ELSE <<input[1].size>> \o NewValues(Tail(input), have \o <<input[1].size>>)

\* productVariantsBulkDelete: the variants go, and so do the option values
\* no variant uses any more.
ShopDelete(sh, ids) ==
    LET left == WithoutIds(sh.variants, ids)
    IN  [sh EXCEPT !.variants = left,
                   !.optionValues =
                       FilterIn(sh.optionValues, {left[i].size : i \in 1..Len(left)})]

\* The variants productVariantsBulkCreate returns for `input`.
CreatedVariants(sh, input) ==
    [i \in 1..Len(input) |->
        [id |-> sh.nextId + i - 1, size |-> input[i].size, price |-> input[i].price,
         sku |-> <<>>, inv |-> TRUE]]

\* productVariantsBulkCreate: new variants and new option values are appended.
ShopCreate(sh, input) ==
    [sh EXCEPT !.variants = sh.variants \o CreatedVariants(sh, input),
               !.optionValues = sh.optionValues \o NewValues(input, sh.optionValues),
               !.nextId = sh.nextId + Len(input)]

\* productVariantsBulkUpdate: each named variant takes its new price.
ShopUpdatePrices(sh, updates) ==
    [sh EXCEPT !.variants =
        [i \in 1..Len(sh.variants) |->
            LET v == sh.variants[i]
            IN  IF \E k \in 1..Len(updates) : updates[k].id = v.id
                THEN [v EXCEPT !.price =
                         updates[CHOOSE k \in 1..Len(updates) : updates[k].id = v.id].price]
                ELSE v]]

\* inventoryItemUpdate: the variant's inventory item takes the SKU.
ShopSetSku(sh, id, sku) ==
    [sh EXCEPT !.variants =
        [i \in 1..Len(sh.variants) |->
            IF sh.variants[i].id = id THEN [sh.variants[i] EXCEPT !.sku = sku]
            ELSE sh.variants[i]]]

\* Position of value x in the list values, or past its end.
IndexOf(values, x) ==
    IF Contains(values, x) THEN CHOOSE i \in 1..Len(values) : values[i] = x
    ELSE Len(values) + 1

\* productOptionsReorder: the option takes the order, and the variants follow.
ShopReorder(sh, values) ==
    [sh EXCEPT !.optionValues = values,
               !.variants = StableSort(sh.variants,
                   [v \in Range(sh.variants) |-> IndexOf(values, v.size)])]

(***************************************************************************)
(* Resting values of the parts a flow does not use                         *)
(***************************************************************************)
NoCatalog == [products |-> <<>>, collections |-> <<>>]

ImportIdle ==
    [pc |-> "idle", run |-> 1, vfs |-> <<>>, existingCollection |-> "none",
     created |-> <<>>, newly |-> <<>>, matched |-> <<>>, idx |-> 1,
     result |-> [status |-> "none", message |-> ""], calls |-> <<>>,
     start |-> <<>>, dup |-> "none", fails |-> {}]

\* A token is a positive number; 0 stands for null, undefined or a missing field.
NoFile == [state |-> "absent", access_token |-> 0, refresh_token |-> 0]

NoTokens == [accessToken |-> 0, refreshToken |-> 0, file |-> NoFile]

\* What the last exchangeCodeForToken call got and how its promise settled.
NoExchange ==
    [answer |-> "none", body |-> "", settled |-> "none", success |-> FALSE,
     error |-> ""]

\* No price has been computed yet.
MarkupIdle == [pc |-> "idle", p1 |-> 0, p2 |-> 0, out1 |-> 0, out2 |-> 0, text |-> <<>>]

\* No variant has been normalised yet.
SizesIdle ==
    [pc |-> "idle",
     variant |-> [variantId |-> 0,
                  sizeChart |-> [availableConversions |-> <<>>,
                                 defaultConversion |-> [size |-> <<>>]]],
     sizes |-> [size_eu |-> <<>>, size_us |-> <<>>]]

\* No fetch is running beside another one.
RaceIdle == [calls |-> <<>>, issued |-> 0, saved |-> <<>>]

\* The action has not been called.
EndpointIdle ==
    [pc |-> "idle", intent |-> "none", sku |-> <<>>, products |-> <<>>, i |-> 0,
     stage |-> <<>>, order |-> <<>>, fetched |-> <<>>, reconciled |-> "none",
     successCount |-> 0, failCount |-> 0, shops |-> <<>>, late |-> {},
     updateResult |-> [status |-> "none", count |-> 0],
     result |-> [status |-> "none", message |-> ""]]

\* No product has been loaded.
LoaderIdle ==
    [pc |-> "idle", sku |-> <<>>, size |-> <<>>, inventory |-> <<>>, loaded |-> <<>>]

\* No token operation has run yet.
AuthIdle ==
    [op |-> "none", returned |-> FALSE, posted |-> FALSE, wrote |-> FALSE,
     response |-> [access_token |-> 0, refresh_token |-> 0],
     before |-> NoTokens, received |-> 0, writeFailed |-> FALSE, ops |-> 0,
     issued |-> 1, exchanged |-> NoExchange, called |-> NoTokens, inflight |-> 0]

\* The locals of one fetchStockXData call, and what the call has sent so far.
FetchIdle ==
    [pc |-> "idle", sku |-> <<>>, retry |-> FALSE, searchAttempt |-> 0,
     variantsAttempt |-> 0, n |-> 0, batch |-> 0, tasks |-> <<>>, quotes |-> <<>>,
     result |-> [status |-> 0, error |-> "", action |-> FALSE],
     searchReqs |-> 0, variantReqs |-> 0, refreshCalls |-> 0, tokenPosts |-> 0,
     passes |-> 0, gate |-> "none", tok0 |-> NoTokens, issued |-> 1,
     searchAllRetryable |-> TRUE, retrySearch401 |-> FALSE, refreshed401 |-> FALSE,
     via |-> "-", listed |-> FALSE, variantsRetryable |-> 0,
     passSearch |-> 0, passVariants |-> 0,
     hit |-> [styleId |-> <<>>, sku |-> <<>>, title |-> "", brand |-> ""]]

(***************************************************************************)
(* TokenStore (stockx.server.js)                                           *)
(***************************************************************************)
\* loadToken: the module's variables after the call.
LoadToken(t) ==
    IF t.accessToken # 0 /\ t.refreshToken # 0 THEN t
    ELSE IF t.file.state = "ok"
         THEN [t EXCEPT !.accessToken = t.file.access_token,
                        !.refreshToken = t.file.refresh_token]
         ELSE t

MergeTokenData_Overwrites(file, tokenData) ==
    [state |-> "ok", access_token |-> tokenData.access_token,
     refresh_token |-> tokenData.refresh_token]

\* { ...existingData, ...tokenData }: a field the response carries wins.
MergeTokenData(file, tokenData) ==
    LET old == IF file.state = "ok" THEN file ELSE NoFile
    IN  [state |-> "ok",
         access_token |-> IF tokenData.access_token # 0
                          THEN tokenData.access_token ELSE old.access_token,
         refresh_token |-> IF tokenData.refresh_token # 0
                           THEN tokenData.refresh_token ELSE old.refresh_token]

SaveToken_AssignsFirst(t, tokenData, writeOk) ==
    LET newData == MergeTokenData(t.file, tokenData)
    IN  [accessToken |-> newData.access_token,
         refreshToken |-> IF newData.refresh_token # 0
                          THEN newData.refresh_token ELSE t.refreshToken,
         file |-> IF writeOk THEN newData ELSE t.file]

\* saveToken: write the merged data, then set the variables; a failing write
\* is logged and leaves everything as it was.
SaveToken(t, tokenData, writeOk) ==
    LET newData == MergeTokenData(t.file, tokenData)
    IN  IF ~writeOk THEN t
        ELSE [accessToken |-> newData.access_token,
              refreshToken |-> IF newData.refresh_token # 0
                               THEN newData.refresh_token ELSE t.refreshToken,
              file |-> newData]

\* The answers of the token endpoint to a refresh grant: a new token pair, a
\* new access token only, a rejection, or a transport exception.
RefreshOutcomes == {"ok", "ok_no_refresh_token", "rejected", "exception"}

\* The body of an OK answer that hands out token number k.
TokenData(outcome, k) ==
    [access_token |-> k, refresh_token |-> IF outcome = "ok" THEN k ELSE 0]

Refreshed_Always(outcome) == TRUE

\* refreshAccessToken once the answer is in: the value returned.
Refreshed(outcome) == outcome \in {"ok", "ok_no_refresh_token"}

AfterRefresh_SavesAnyAnswer(t, outcome, k, writeOk) ==
    SaveToken(t, TokenData("ok", k), writeOk)

\* refreshAccessToken once the answer is in: the token store afterwards.
AfterRefresh(t, outcome, k, writeOk) ==
    IF Refreshed(outcome) THEN SaveToken(t, TokenData(outcome, k), writeOk) ELSE t

\* s.trim()
RECURSIVE TrimLeft(_)
TrimLeft(s) == IF s # <<>> /\ IsSpace(s[1]) THEN TrimLeft(Tail(s)) ELSE s

RECURSIVE TrimRight(_)
TrimRight(s) ==
    IF s # <<>> /\ IsSpace(s[Len(s)]) THEN TrimRight(SubSeq(s, 1, Len(s) - 1)) ELSE s

Trim(s) == TrimRight(TrimLeft(s))

\* sku ? sku.trim() : ""   (<<>> stands for null, undefined and "")
CleanSku(sku) == IF sku = <<>> THEN <<>> ELSE Trim(sku)


(***************************************************************************)
(* fetchStockXData: results                                                *)
(***************************************************************************)
\* The result object of a call that did not return the data.
Failure(status, error, action) == [status |-> status, error |-> error, action |-> action]

\* The store a fetch that returned the data has left: both tokens in the
\* variables and in the file.
SignedIn ==
    [accessToken |-> 1, refreshToken |-> 1,
     file |-> [state |-> "ok", access_token |-> 1, refresh_token |-> 1]]

(***************************************************************************)
(* updateShopifyProduct: one action per awaited step                       *)
(***************************************************************************)
\* The locals of one run; calls is the list of storefront requests the run has
\* issued, fails the requests that were answered with errors, start the
\* product's variants when the run began, and prevOps, prevFails, prevPc and
\* prevStart the kinds of request, the failures, the end and the start of the
\* run before; late holds the inventory updates of the run before that were
\* not answered when this run was called.
SyncIdle ==
    [pc |-> "idle", run |-> 1, vfs |-> <<>>, cur |-> <<>>, created |-> <<>>,
     matched |-> <<>>, pending |-> {}, fresh |-> <<>>,
     result |-> [status |-> "none", count |-> 0], calls |-> <<>>, start |-> <<>>,
     prevOps |-> {}, fails |-> {}, prevFails |-> {}, prevPc |-> "none",
     prevStart |-> <<>>, late |-> {}]

Call(op, arg) == [op |-> op, arg |-> arg]

IssuedOps(calls) == {calls[k].op : k \in 1..Len(calls)}

\* The failed requests of a run are kept with the way they failed.
Failed(op, outcome) ==
    IF outcome = "ok" THEN {} ELSE {[op |-> op, outcome |-> outcome]}

SyncStart_NoEarlyReturn ==
    /\ sy.pc = "idle"
    /\ sy' = [sy EXCEPT !.pc = "fetch", !.start = shop.variants,
                        !.vfs = VariantsForShopify(snap)]
    /\ UNCHANGED <<ep, ld, rc, sz, mk, au, snap, shop, cat, im, tok, fx>>

\* Lines 25-44: the locals s of a call with the snapshot data for the product
\* sh, up to the first request: the variants are prepared, and nothing priced
\* ends the run with the warning.
SyncBegun(s, data, sh) ==
    LET vfs == VariantsForShopify(data)
    IN  IF vfs = <<>>
        THEN [s EXCEPT !.pc = "done", !.start = sh.variants,
                       !.result = [status |-> "warning", count |-> 0]]
        ELSE [s EXCEPT !.pc = "fetch", !.start = sh.variants, !.vfs = vfs]

\* updateShopifyProduct is called with the snapshot for the product.
SyncStart ==
    /\ sy.pc = "idle"
    /\ sy' = SyncBegun(sy, snap, shop)
    /\ UNCHANGED <<ep, ld, rc, sz, mk, au, snap, shop, cat, im, tok, fx>>

\* Lines 52-75: the query for the current variants.
SyncFetchCurrent(outcome) ==
    /\ sy.pc = "fetch"
    /\ sy' = IF outcome = "ok"
             THEN [sy EXCEPT !.pc = "delete",
                             !.cur = FirstPage(shop.variants),
                             !.calls = @ \o <<Call("getProductVariants", <<>>)>>]
             ELSE [sy EXCEPT !.pc = "thrown",
                             !.fails = @ \cup Failed("getProductVariants", outcome),
                             !.calls = @ \o <<Call("getProductVariants", <<>>)>>]
    /\ UNCHANGED <<ep, ld, rc, sz, mk, au, snap, shop, cat, im, tok, fx>>

DeleteIds(vfs, cur) ==
    LET del == VariantsToDelete(vfs, cur)
    IN  [i \in 1..Len(del) |-> del[i].id]

\* Lines 98-129: the bulk delete; its user errors and exceptions are logged.
SyncDelete(outcome) ==
    /\ sy.pc = "delete"
    /\ LET ids == DeleteIds(sy.vfs, sy.cur)
       IN  IF ids = <<>>
           THEN /\ sy' = [sy EXCEPT !.pc = "create"]
                /\ shop' = shop
           ELSE /\ sy' = [sy EXCEPT !.pc = "create",
                              !.fails = @ \cup Failed("productVariantsBulkDelete", outcome),
                              !.calls = @ \o <<Call("productVariantsBulkDelete", ids)>>]
                /\ shop' = IF outcome = "ok" THEN ShopDelete(shop, Range(ids)) ELSE shop
    /\ UNCHANGED <<ep, ld, rc, sz, mk, au, snap, cat, im, tok, fx>>

\* variantsCreateInput
CreateInput(vfs, cur) ==
    LET crt == VariantsToCreate(vfs, cur)
    IN  [i \in 1..Len(crt) |-> [price |-> crt[i].price, size |-> crt[i].size]]

\* Lines 134-170: the bulk create; user errors leave newlyCreatedVariants empty.
SyncCreate(outcome) ==
    /\ sy.pc = "create"
    /\ LET input == CreateInput(sy.vfs, sy.cur)
       IN  IF input = <<>>
           THEN /\ sy' = [sy EXCEPT !.pc = "update"]
                /\ shop' = shop
           ELSE /\ sy' = [sy EXCEPT
                              !.pc = IF outcome = "throw" THEN "thrown" ELSE "update",
                              !.created = IF outcome = "ok"
                                          THEN CreatedVariants(shop, input) ELSE <<>>,
                              !.fails = @ \cup Failed("productVariantsBulkCreate", outcome),
                              !.calls = @ \o <<Call("productVariantsBulkCreate", input)>>]
                /\ shop' = IF outcome = "ok" THEN ShopCreate(shop, input) ELSE shop
    /\ UNCHANGED <<ep, ld, rc, sz, mk, au, snap, cat, im, tok, fx>>

\* variantsToUpdate
UpdateInput(matched) ==
    [i \in 1..Len(matched) |-> [id |-> matched[i].id, price |-> matched[i].source.price]]

\* Lines 173-209: the bulk price update of every matched variant.
SyncUpdate(outcome) ==
    /\ sy.pc = "update"
    /\ LET matched == MatchedVariants(sy.cur \o sy.created, sy.vfs)
           input == UpdateInput(matched)
       IN  IF input = <<>>
           THEN /\ sy' = [sy EXCEPT !.pc = "inventory", !.matched = matched]
                /\ shop' = shop
           ELSE /\ sy' = [sy EXCEPT
                              !.pc = IF outcome = "throw" THEN "thrown" ELSE "inventory",
                              !.matched = matched,
                              !.fails = @ \cup Failed("productVariantsBulkUpdate", outcome),
                              !.calls = @ \o <<Call("productVariantsBulkUpdate", input)>>]
                /\ shop' = IF outcome = "ok" THEN ShopUpdatePrices(shop, input) ELSE shop
    /\ UNCHANGED <<ep, ld, rc, sz, mk, au, snap, cat, im, tok, fx>>

\* The inventoryItemUpdate requests of the matched variants, in array order.
RECURSIVE InventoryCalls(_)
InventoryCalls(matched) ==
    IF matched = <<>> THEN <<>>
    ELSE IF matched[1].inv
         THEN <<Call("inventoryItemUpdate",
                     [id |-> matched[1].id, sku |-> matched[1].source.sku,
                      tracked |-> TRUE])>> \o InventoryCalls(Tail(matched))
         ELSE InventoryCalls(Tail(matched))

\* Lines 216-235: Promise.all starts every inventory update before awaiting.
SyncInventoryIssue ==
    /\ sy.pc = "inventory"
    /\ LET reqs == InventoryCalls(sy.matched)
       IN  sy' = [sy EXCEPT !.pc = "invwait",
                            !.pending = {reqs[i].arg.id : i \in 1..Len(reqs)},
                            !.calls = @ \o reqs]
    /\ UNCHANGED <<ep, ld, rc, sz, mk, au, snap, shop, cat, im, tok, fx>>

\* One inventory update is answered. The first exception rejects the
\* Promise.all and with it the run; the requests still in flight are answered
\* afterwards and change the product all the same.
SyncInventoryComplete(id, outcome) ==
    /\ sy.pc \in {"invwait", "thrown"}
    /\ id \in sy.pending
    /\ LET mv == CHOOSE m \in Range(sy.matched) : m.id = id
       IN  /\ sy' = [sy EXCEPT
                        !.pc = IF outcome = "throw" THEN "thrown" ELSE @,
                        !.fails = @ \cup Failed("inventoryItemUpdate", outcome),
                        !.pending = @ \ {id}]
           /\ shop' = IF outcome = "ok" THEN ShopSetSku(shop, id, mv.source.sku)
                      ELSE shop
    /\ UNCHANGED <<ep, ld, rc, sz, mk, au, snap, cat, im, tok, fx>>

SyncOptionQuery_NoJoin(outcome) ==
    /\ sy.pc = "invwait"
    /\ sy' = [sy EXCEPT
                 !.pc = IF outcome = "throw" THEN "thrown" ELSE "reorder",
                 !.fresh = IF outcome = "ok" THEN shop.optionValues ELSE <<>>,
                 !.fails = @ \cup Failed("getProductOptions", outcome),
                 !.calls = @ \o <<Call("getProductOptions", <<>>)>>]
    /\ UNCHANGED <<ep, ld, rc, sz, mk, au, snap, shop, cat, im, tok, fx>>

\* Lines 244-259: the query for the live option values; an answer without
\* data leaves no option to sort, an exception leaves the function.
SyncOptionQuery(outcome) ==
    /\ sy.pc = "invwait"
    /\ sy.pending = {}
    /\ sy' = [sy EXCEPT
                 !.pc = IF outcome = "throw" THEN "thrown" ELSE "reorder",
                 !.fresh = IF outcome = "ok" THEN shop.optionValues ELSE <<>>,
                 !.fails = @ \cup Failed("getProductOptions", outcome),
                 !.calls = @ \o <<Call("getProductOptions", <<>>)>>]
    /\ UNCHANGED <<ep, ld, rc, sz, mk, au, snap, shop, cat, im, tok, fx>>

\* Lines 261-323: reorder when the sorted list differs, then report success.
SyncReorder(outcome) ==
    /\ sy.pc = "reorder"
    /\ LET sorted == SortedValues(sy.fresh)
           done == [sy EXCEPT !.pc = "done",
                       !.result = [status |-> "success", count |-> Len(sy.matched)]]
       IN  IF sy.fresh = <<>> \/ sorted = sy.fresh
           THEN /\ sy' = done
                /\ shop' = shop
           ELSE /\ sy' = IF outcome = "throw"
                         THEN [sy EXCEPT !.pc = "thrown",
                                  !.fails = @ \cup Failed("productOptionsReorder", outcome),
                                  !.calls = @ \o <<Call("productOptionsReorder", sorted)>>]
                         ELSE [done EXCEPT
                                  !.fails = @ \cup Failed("productOptionsReorder", outcome),
                                  !.calls = @ \o <<Call("productOptionsReorder", sorted)>>]
                /\ shop' = IF outcome = "ok" THEN ShopReorder(shop, sorted) ELSE shop
    /\ UNCHANGED <<ep, ld, rc, sz, mk, au, snap, cat, im, tok, fx>>

\* The inventory updates of the run s that have not been answered.
LateRequests(s) ==
    {[id |-> m.id, sku |-> m.source.sku] :
        m \in {x \in Range(s.matched) : x.id \in s.pending}}

\* updateShopifyProduct is called a second time with the same snapshot, for
\* the product as the first run has left it so far: lines 25-44 of the second
\* call. The first run has returned or thrown; the inventory updates a run
\* that threw left unanswered stay in flight.
SyncAgain ==
    /\ sy.pc \in {"done", "thrown"}
    /\ sy.run < MaxRuns
    /\ sy' = SyncBegun([SyncIdle EXCEPT !.run = sy.run + 1, !.prevOps = IssuedOps(sy.calls),
                                        !.prevFails = sy.fails, !.prevPc = sy.pc,
                                        !.prevStart = sy.start,
                                        !.late = sy.late \cup LateRequests(sy)],
                       snap, shop)
    /\ UNCHANGED <<ep, ld, rc, sz, mk, au, snap, shop, cat, im, tok, fx>>

\* Lines 216-235: an inventory update of the run before is answered while
\* this run is under way or over; answered without errors it sets the SKU of
\* the variant, if the product still has it.
SyncLateAnswer(l, outcome) ==
    /\ l \in sy.late
    /\ sy' = [sy EXCEPT !.late = @ \ {l}]
    /\ shop' = IF outcome = "ok" THEN ShopSetSku(shop, l.id, l.sku) ELSE shop
    /\ UNCHANGED <<ep, ld, rc, sz, mk, au, snap, cat, im, tok, fx>>

\* The sizes of a reconciliation: those of SizePool and the blank size_eu that
\* stockx.server.js 283-286 leaves of the marketplace size "US ".
SyncSizes == SizePool \cup {<<>>}

\* A product with one variant more than the variants query returns
\* (variants(first: 200)): sizes "101" to "301", in this order.
LargeProduct ==
    Storefront([i \in 1..(VariantsPage + 1) |->
                   [size |-> NatToString(100 + i), price |-> 9990]])

\* Snapshots for the large product: its last size without an ask beside a
\* priced size 40, and its last size priced.
LargeSnapshots ==
    { Snapshot(<< [size_eu |-> <<"4", "0">>, price |-> FormatAsk(120)],
                  [size_eu |-> NatToString(100 + VariantsPage + 1), price |-> NoAsk] >>,
               "Nike"),
      Snapshot(<< [size_eu |-> NatToString(100 + VariantsPage + 1),
                   price |-> FormatAsk(95)] >>, "Nike") }

\* Any snapshot meets any small product whose variants have a size, a blank
\* "Size (EU)" value or no such option; or the large product is synced.
SyncInitOf(sizes) ==
    /\ \/ /\ snap \in SnapshotsOf(sizes, {"Nike"})
          /\ shop \in {Storefront(v) : v \in VariantListsOf(sizes)}
       \/ /\ snap \in LargeSnapshots
          /\ shop = LargeProduct
    /\ sy = SyncIdle
    /\ cat = NoCatalog
    /\ im = ImportIdle
    /\ tok = SignedIn
    /\ fx = FetchIdle
    /\ mk = MarkupIdle
    /\ sz = SizesIdle
    /\ rc = RaceIdle
    /\ ep = EndpointIdle
    /\ ld = LoaderIdle
    /\ au = AuthIdle

SyncInit == SyncInitOf(SyncSizes)

\* Every storefront call succeeds.
SyncNext ==
    \/ SyncStart
    \/ SyncFetchCurrent("ok")
    \/ SyncDelete("ok")
    \/ SyncCreate("ok")
    \/ SyncUpdate("ok")
    \/ SyncInventoryIssue
    \/ \E id \in sy.pending : SyncInventoryComplete(id, "ok")
    \/ SyncOptionQuery("ok")
    \/ SyncReorder("ok")
    \/ SyncAgain

SpecSync == SyncInit /\ [][SyncNext]_vars

\* One run in which the inventory updates, the option query and the reorder
\* may answer with user errors or throw.
SyncFailNext ==
    \/ SyncStart
    \/ SyncFetchCurrent("ok")
    \/ SyncDelete("ok")
    \/ SyncCreate("ok")
    \/ SyncUpdate("ok")
    \/ SyncInventoryIssue
    \/ \E id \in sy.pending, o \in {"ok", "userErrors", "throw"} :
          SyncInventoryComplete(id, o)
    \/ \E o \in {"ok", "userErrors", "throw"} : SyncOptionQuery(o)
    \/ \E o \in {"ok", "userErrors", "throw"} : SyncReorder(o)

SpecSyncFail == SyncInit /\ [][SyncFailNext]_vars

\* One run in which the storefront may also refuse the bulk create with user
\* errors.
SyncBlankNext ==
    \/ SyncStart
    \/ SyncFetchCurrent("ok")
    \/ SyncDelete("ok")
    \/ \E o \in {"ok", "userErrors"} : SyncCreate(o)
    \/ SyncUpdate("ok")
    \/ SyncInventoryIssue
    \/ \E id \in sy.pending, o \in {"ok", "userErrors", "throw"} :
          SyncInventoryComplete(id, o)
    \/ \E o \in {"ok", "userErrors", "throw"} : SyncOptionQuery(o)
    \/ \E o \in {"ok", "userErrors", "throw"} : SyncReorder(o)

SpecSyncBlank == SyncInit /\ [][SyncBlankNext]_vars

\* The answers to a request of the given run: in the first run every request
\* may be answered with user errors or throw; the second run, whose requests
\* are what is looked at, is answered without errors.
Answers(run) == IF run = 1 THEN {"ok", "userErrors", "throw"} ELSE {"ok"}

\* Two runs in a row.
SyncTwiceNext ==
    \/ SyncStart
    \/ \E o \in Answers(sy.run) \ {"userErrors"} : SyncFetchCurrent(o)
    \/ \E o \in Answers(sy.run) : SyncDelete(o)
    \/ \E o \in Answers(sy.run) : SyncCreate(o)
    \/ \E o \in Answers(sy.run) : SyncUpdate(o)
    \/ SyncInventoryIssue
    \/ \E id \in sy.pending, o \in Answers(sy.run) : SyncInventoryComplete(id, o)
    \/ \E o \in Answers(sy.run) : SyncOptionQuery(o)
    \/ \E o \in Answers(sy.run) : SyncReorder(o)
    \/ SyncAgain
    \/ \E l \in sy.late, o \in Answers(1) : SyncLateAnswer(l, o)

\* "43", "40" and the blank size.
TwiceSizes == { <<"4", "3">>, <<"4", "0">>, <<>> }

\* The product of two runs in a row carries the stale price on every variant:
\* updateShopifyProduct never reads the price of an existing variant.
SyncTwiceInit ==
    /\ SyncInitOf(TwiceSizes)
    /\ \A i \in 1..Len(shop.variants) : shop.variants[i].price = 9990

SpecSyncTwice == SyncTwiceInit /\ [][SyncTwiceNext]_vars

(***************************************************************************)
(* createShopifyProductFromData: one action per awaited step               *)
(***************************************************************************)
\* "stockx-sync"
SyncTag == <<"s", "t", "o", "c", "k", "x", "-", "s", "y", "n", "c">>

\* products(first: 1, query: `tag:"sku" OR title:"title"`): is there a match?
DuplicateFound(catalog, info) ==
    \E i \in 1..Len(catalog.products) :
        \/ info.sku \in catalog.products[i].tags
        \/ catalog.products[i].title = info.title

FindCollection_IgnoresRuleSet(catalog, brand) ==
    IF \E i \in 1..Len(catalog.collections) : catalog.collections[i].title = brand
    THEN "manual"
    ELSE "none"

\* collections(first: 1, query: `title:brand`): "none", "smart" or "manual".
FindCollection(catalog, brand) ==
    IF \E i \in 1..Len(catalog.collections) : catalog.collections[i].title = brand
    THEN LET k == CHOOSE i \in 1..Len(catalog.collections) :
                    /\ catalog.collections[i].title = brand
                    /\ \A j \in 1..(i - 1) : catalog.collections[j].title # brand
         IN  IF catalog.collections[k].ruleSet THEN "smart" ELSE "manual"
    ELSE "none"

\* !brand || typeof brand !== 'string'
BrandMissing(brand) == brand = NoBrand

\* Lines 16-35: prepare the variants (unsorted); nothing priced is an error.
\* Without a brand the flow goes straight to the product creation.
ImportStart ==
    /\ im.pc = "idle"
    /\ LET vfs == PreparedVariants(snap.product_info.sku, snap.variants)
       IN  im' = IF vfs = <<>>
                 THEN [im EXCEPT !.pc = "done", !.start = cat.products,
                          !.result = [status |-> "error", message |-> "No valid prices"]]
                 ELSE [im EXCEPT !.start = cat.products, !.vfs = vfs,
                          !.pc = IF BrandMissing(snap.product_info.brand)
                                 THEN "productCreate" ELSE "duplicateQuery"]
    /\ UNCHANGED <<ep, ld, rc, sz, mk, au, snap, shop, cat, sy, tok, fx>>

ImportDuplicateQuery_ThrowEnds(outcome) ==
    /\ im.pc = "duplicateQuery"
    /\ im' = IF outcome = "ok" /\ DuplicateFound(cat, snap.product_info)
             THEN [im EXCEPT !.pc = "done", !.dup = outcome,
                      !.calls = @ \o <<Call("products", <<>>)>>,
                      !.result = [status |-> "warning",
                                  message |-> "Product already exists"]]
             ELSE [im EXCEPT !.pc = IF outcome = "ok" THEN "collectionQuery" ELSE "thrown",
                      !.dup = outcome,
                      !.fails = @ \cup Failed("products", outcome),
                      !.calls = @ \o <<Call("products", <<>>)>>]
    /\ UNCHANGED <<ep, ld, rc, sz, mk, au, snap, shop, cat, sy, tok, fx>>

\* Lines 53-84: the duplicate check; a failing query is logged and passed over.
ImportDuplicateQuery(outcome) ==
    /\ im.pc = "duplicateQuery"
    /\ im' = IF outcome = "ok" /\ DuplicateFound(cat, snap.product_info)
             THEN [im EXCEPT !.pc = "done", !.dup = outcome,
                      !.fails = @ \cup Failed("products", outcome),
                      !.calls = @ \o <<Call("products", <<>>)>>,
                      !.result = [status |-> "warning",
                                  message |-> "Product already exists"]]
             ELSE [im EXCEPT !.pc = "collectionQuery", !.dup = outcome,
                      !.fails = @ \cup Failed("products", outcome),
                      !.calls = @ \o <<Call("products", <<>>)>>]
    /\ UNCHANGED <<ep, ld, rc, sz, mk, au, snap, shop, cat, sy, tok, fx>>

\* Lines 87-112 and 142-145: the lookup of the brand collection.
ImportCollectionQuery(outcome) ==
    /\ im.pc = "collectionQuery"
    /\ LET found == FindCollection(cat, snap.product_info.brand)
       IN  im' = IF outcome = "ok"
                 THEN [im EXCEPT !.existingCollection = found,
                          !.pc = IF found = "none" THEN "collectionCreate"
                                 ELSE "productCreate",
                          !.calls = @ \o <<Call("collections", <<>>)>>]
                 ELSE [im EXCEPT !.pc = "productCreate",
                          !.fails = @ \cup Failed("collections", outcome),
                          !.calls = @ \o <<Call("collections", <<>>)>>]
    /\ UNCHANGED <<ep, ld, rc, sz, mk, au, snap, shop, cat, sy, tok, fx>>

\* Lines 113-141: the smart collection VENDOR EQUALS brand; failures are logged.
ImportCollectionCreate(outcome) ==
    /\ im.pc = "collectionCreate"
    /\ im' = [im EXCEPT !.pc = "productCreate",
                 !.fails = @ \cup Failed("collectionCreate", outcome),
                 !.calls = @ \o <<Call("collectionCreate", snap.product_info.brand)>>]
    /\ cat' = IF outcome = "ok"
              THEN [cat EXCEPT !.collections =
                       @ \o <<[title |-> snap.product_info.brand, ruleSet |-> TRUE,
                               members |-> 0]>>]
              ELSE cat
    /\ UNCHANGED <<ep, ld, rc, sz, mk, au, snap, shop, sy, tok, fx>>

\* sizeValues
SizeValues(vfs) == [i \in 1..Len(vfs) |-> vfs[i].size]

\* The product productCreate returns: the option with every value, and the
\* variants of its first m values, not yet priced.
CreatedProduct(vfs, m) ==
    [variants |-> [i \in 1..m |->
                      [id |-> i, size |-> vfs[i].size, price |-> 0, sku |-> <<>>,
                       inv |-> TRUE]],
     optionValues |-> SizeValues(vfs),
     nextId |-> m + 1]

\* Lines 150-206: the product creation; an exception is rethrown, user errors
\* end the import with an error result.
ImportProductCreate(outcome, m) ==
    /\ im.pc = "productCreate"
    /\ m \in 1..Len(im.vfs)
    /\ LET info == snap.product_info
           call == Call("productCreate",
                        [title |-> info.title, tags |-> {SyncTag, info.sku},
                         values |-> SizeValues(im.vfs)])
       IN  IF outcome = "ok"
           THEN /\ im' = [im EXCEPT !.pc = "bulkCreate",
                              !.created = CreatedProduct(im.vfs, m).variants,
                              !.calls = @ \o <<call>>]
                /\ shop' = CreatedProduct(im.vfs, m)
                /\ cat' = [cat EXCEPT !.products =
                              @ \o <<[title |-> info.title,
                                      tags |-> {SyncTag, info.sku}]>>]
           ELSE /\ im' = IF outcome = "throw"
                         THEN [im EXCEPT !.pc = "thrown", !.calls = @ \o <<call>>,
                                  !.fails = @ \cup Failed("productCreate", outcome),
                                  !.result = [status |-> "thrown",
                                              message |-> "Product Create Failed"]]
                         ELSE [im EXCEPT !.pc = "done", !.calls = @ \o <<call>>,
                                  !.fails = @ \cup Failed("productCreate", outcome),
                                  !.result = [status |-> "error",
                                              message |-> "Shopify Create Error"]]
                /\ UNCHANGED <<ep, ld, rc, sz, mk, au, shop, cat>>
    /\ UNCHANGED <<ep, ld, rc, sz, mk, au, snap, sy, tok, fx>>

\* Lines 209-257: bulk-create the sizes productCreate did not materialize.
ImportBulkCreate(outcome) ==
    /\ im.pc = "bulkCreate"
    /\ LET input == CreateInput(im.vfs, im.created)
       IN  IF input = <<>>
           THEN /\ im' = [im EXCEPT !.pc = "priceUpdate"]
                /\ shop' = shop
           ELSE /\ im' = [im EXCEPT
                              !.pc = IF outcome = "throw" THEN "thrown"
                                     ELSE "priceUpdate",
                              !.newly = IF outcome = "ok"
                                        THEN CreatedVariants(shop, input) ELSE <<>>,
                              !.fails = @ \cup Failed("productVariantsBulkCreate", outcome),
                              !.calls = @ \o <<Call("productVariantsBulkCreate", input)>>]
                /\ shop' = IF outcome = "ok" THEN ShopCreate(shop, input) ELSE shop
    /\ UNCHANGED <<ep, ld, rc, sz, mk, au, snap, cat, sy, tok, fx>>

\* initialVariantToUpdate: the first matched variant productCreate returned.
InitialVariantToUpdate(matched, created) ==
    LET hits == {i \in 1..Len(matched) :
                    Contains(ExistingSizeValues(created), matched[i].source.size)}
    IN  IF hits = {} THEN <<>>
        ELSE <<matched[CHOOSE i \in hits : \A j \in hits : i <= j]>>

\* Lines 260-287: match the variants and price the initial variant.
ImportPriceUpdate(outcome) ==
    /\ im.pc = "priceUpdate"
    /\ LET matched == MatchedVariants(im.created \o im.newly, im.vfs)
           input == UpdateInput(InitialVariantToUpdate(matched, im.created))
       IN  IF input = <<>>
           THEN /\ im' = [im EXCEPT !.pc = "inventory", !.matched = matched]
                /\ shop' = shop
           ELSE /\ im' = [im EXCEPT
                              !.pc = IF outcome = "throw" THEN "thrown"
                                     ELSE "inventory",
                              !.matched = matched,
                              !.fails = @ \cup Failed("productVariantsBulkUpdate", outcome),
                              !.calls = @ \o <<Call("productVariantsBulkUpdate", input)>>]
                /\ shop' = IF outcome = "ok" THEN ShopUpdatePrices(shop, input) ELSE shop
    /\ UNCHANGED <<ep, ld, rc, sz, mk, au, snap, cat, sy, tok, fx>>

\* Lines 292-323: one turn of the serial inventory loop; failures are logged.
ImportInventory(outcome) ==
    /\ im.pc = "inventory"
    /\ im.idx <= Len(im.matched)
    /\ LET mv == im.matched[im.idx]
       IN  IF ~mv.inv
           THEN /\ im' = [im EXCEPT !.idx = @ + 1]
                /\ shop' = shop
           ELSE /\ im' = [im EXCEPT !.idx = @ + 1,
                              !.fails = @ \cup Failed("inventoryItemUpdate", outcome),
                              !.calls = @ \o InventoryCalls(<<mv>>)]
                /\ shop' = IF outcome = "ok" THEN ShopSetSku(shop, mv.id, mv.source.sku)
                           ELSE shop
    /\ UNCHANGED <<ep, ld, rc, sz, mk, au, snap, cat, sy, tok, fx>>

\* collectionAddProducts: the first collection of that title gains a member.
CatalogAddMember(catalog, brand) ==
    LET k == CHOOSE i \in 1..Len(catalog.collections) :
                /\ catalog.collections[i].title = brand
                /\ \A j \in 1..(i - 1) : catalog.collections[j].title # brand
    IN  [catalog EXCEPT !.collections[k].members = @ + 1]

\* Lines 326-347: add the product to a manual collection, then report success.
ImportFinish(outcome) ==
    /\ im.pc = "inventory"
    /\ im.idx > Len(im.matched)
    /\ LET done == [im EXCEPT !.pc = "done",
                       !.result = [status |-> "success",
                                   message |-> snap.product_info.title]]
       IN  IF im.existingCollection = "manual"
           THEN /\ im' = IF outcome = "throw"
                         THEN [im EXCEPT !.pc = "thrown",
                                  !.fails = @ \cup Failed("collectionAddProducts", outcome),
                                  !.calls = @ \o <<Call("collectionAddProducts", <<>>)>>,
                                  !.result = [status |-> "thrown",
                                              message |-> "collectionAddProducts"]]
                         ELSE [done EXCEPT
                                  !.fails = @ \cup Failed("collectionAddProducts", outcome),
                                  !.calls = @ \o <<Call("collectionAddProducts", <<>>)>>]
                /\ cat' = IF outcome = "ok"
                          THEN CatalogAddMember(cat, snap.product_info.brand)
                          ELSE cat
           ELSE /\ im' = done
                /\ cat' = cat
    /\ UNCHANGED <<ep, ld, rc, sz, mk, au, snap, shop, sy, tok, fx>>

\* The same snapshot is imported again.
ImportAgain ==
    /\ im.pc \in {"done", "thrown"}
    /\ im.run < MaxRuns
    /\ im' = [ImportIdle EXCEPT !.run = im.run + 1]
    /\ UNCHANGED <<ep, ld, rc, sz, mk, au, snap, shop, cat, sy, tok, fx>>

\* "Other-1"
OtherSku == <<"O", "-", "1">>

\* Catalogs: no product, one tagged with the SKU, one of the same title, an
\* unrelated one; no brand collection, a smart one, a manual one.
Catalogs ==
    { [products |-> p, collections |-> c] :
        p \in { <<>>,
                <<[title |-> "Other", tags |-> {SyncTag, ProductSku}]>>,
                <<[title |-> "Dunk", tags |-> {OtherSku}]>>,
                <<[title |-> "Other", tags |-> {OtherSku}]>> },
        c \in { <<>>,
                <<[title |-> "Nike", ruleSet |-> TRUE, members |-> 0]>>,
                <<[title |-> "Nike", ruleSet |-> FALSE, members |-> 0]>> } }

ImportInit ==
    /\ snap \in Snapshots({"Nike", NoBrand})
    /\ cat \in Catalogs
    /\ shop = Storefront(<<>>)
    /\ im = ImportIdle
    /\ sy = SyncIdle
    /\ tok = SignedIn
    /\ fx = FetchIdle
    /\ mk = MarkupIdle
    /\ sz = SizesIdle
    /\ rc = RaceIdle
    /\ ep = EndpointIdle
    /\ ld = LoaderIdle
    /\ au = AuthIdle

Outcomes == {"ok", "userErrors", "throw"}

ImportNext ==
    \/ ImportStart
    \/ \E o \in {"ok", "throw"} : ImportDuplicateQuery(o)
    \/ \E o \in {"ok", "throw"} : ImportCollectionQuery(o)
    \/ \E o \in Outcomes : ImportCollectionCreate(o)
    \/ \E o \in Outcomes, m \in 1..MaxQuotes : ImportProductCreate(o, m)
    \/ \E o \in Outcomes : ImportBulkCreate(o)
    \/ \E o \in Outcomes : ImportPriceUpdate(o)
    \/ \E o \in Outcomes : ImportInventory(o)
    \/ \E o \in Outcomes : ImportFinish(o)
    \/ ImportAgain

SpecImport == ImportInit /\ [][ImportNext]_vars

(***************************************************************************)
(* Claims about updateShopifyProduct (checked under SpecSync)              *)
(***************************************************************************)
\* D: the sizes of the snapshot that have an ask.
DesiredSizes == {q.size_eu : q \in {x \in Range(snap.variants) : x.price # NoAsk}}

\* The sizes of the snapshot whose price is "No Ask".
NoAskSizes == {q.size_eu : q \in {x \in Range(snap.variants) : x.price = NoAsk}}

\* The marked-up price, in cents, of the snapshot's quote for a desired size.
DesiredPrice(size) ==
    LET q == CHOOSE x \in Range(snap.variants) : x.size_eu = size
        ask == CHOOSE a \in Asks : FormatAsk(a) = q.price
    IN  calculateMarkupPrice(ask * Scale)

SizeSet(vs) == {v.size : v \in Range(vs)} \ {NoSize}

CallsOf(calls, op) == {c \in Range(calls) : c.op = op}

\* The product holds exactly the desired sizes, every variant at the snapshot's
\* marked-up price, and the variants of sizes in E and D are the old ones.
Converged ==
    /\ SizeSet(shop.variants) = DesiredSizes
    /\ \A v \in Range(shop.variants) :
          v.size # NoSize => v.price = DesiredPrice(v.size)
    /\ \A e \in Range(sy.start) :
          e.size \in DesiredSizes =>
              \E v \in Range(shop.variants) : v.id = e.id /\ v.size = e.size
    /\ \A e \in Range(sy.start) :
          (e.size # NoSize /\ e.size \notin DesiredSizes) =>
              ~\E v \in Range(shop.variants) : v.id = e.id

\* The product had at most one page of variants when the run began, so that
\* the variants query (variants(first: 200)) returned all of them.
OnePage(start) == Len(start) <= VariantsPage

\* The variants of the product the variants query of the run returned.
Fetched ==
    {sy.start[i] : i \in {k \in 1..Len(sy.start) : k <= VariantsPage}}

SecondRunIdle ==
    /\ IssuedOps(sy.calls) \cap {"productVariantsBulkDelete",
           "productVariantsBulkCreate", "productOptionsReorder"} = {}
    /\ \A c \in CallsOf(sy.calls, "productVariantsBulkUpdate") :
          \A k \in 1..Len(c.arg) :
              \E e \in Range(sy.start) :
                  e.id = c.arg[k].id /\ e.price = c.arg[k].price

FirstRunClean ==
    /\ sy.prevPc = "done"
    /\ \A f \in sy.prevFails : f.op = "inventoryItemUpdate"

NoAskNeverWritten ==
    /\ \A c \in CallsOf(sy.calls, "productVariantsBulkCreate") :
          \A k \in 1..Len(c.arg) : c.arg[k].size \notin NoAskSizes
    /\ \A c \in CallsOf(sy.calls, "productVariantsBulkUpdate") :
          \A k \in 1..Len(c.arg) :
              \A v \in Range(sy.start) \cup Range(shop.variants) :
                  v.id = c.arg[k].id => v.size \notin NoAskSizes

\* Every variant of `existing` with a "No Ask" size is in the bulk-delete
\* input of the run.
NoAskDeleted(existing) ==
    \A e \in existing :
        e.size \in NoAskSizes =>
            \E c \in CallsOf(sy.calls, "productVariantsBulkDelete") :
                \E k \in 1..Len(c.arg) : c.arg[k] = e.id

Mutations ==
    {"collectionCreate", "productCreate", "productVariantsBulkCreate",
     "productVariantsBulkUpdate", "inventoryItemUpdate", "collectionAddProducts",
     "productVariantsBulkDelete", "productOptionsReorder"}

\* The catalog held a product tagged with the SKU or of the snapshot's title
\* when the import began.
DuplicateAtStart == DuplicateFound([products |-> im.start], snap.product_info)

\* The products the imports have created for the snapshot.
ImportedProducts ==
    {i \in 1..Len(cat.products) :
        /\ cat.products[i].title = snap.product_info.title
        /\ cat.products[i].tags = {SyncTag, snap.product_info.sku}}

ActionResponse_NoCatch(i) == i.result

\* The import action's answer to create_shopify: the flow's result, or the
\* catch block's error result when the flow threw.
ActionResponse(i) ==
    IF i.pc = "thrown" THEN [status |-> "error", message |-> i.result.message]
    ELSE i.result

\* The requests of the run that failed in the given ways.
FailedOps(i, outcomes) == {f.op : f \in {g \in i.fails : g.outcome \in outcomes}}

\* C4: whether or not the snapshot carries a brand, an import that finds the
\* product already in the catalog (no failing duplicate query) issues no
\* mutation and returns the 'already exists' warning; so two imports of the
\* same snapshot in succession create at most one product.
C4_DuplicateAvoidance ==
    /\ (im.pc \in {"done", "thrown"} /\ DesiredSizes # {} /\ DuplicateAtStart
            /\ im.dup # "throw") =>
           /\ IssuedOps(im.calls) \cap Mutations = {}
           /\ im.result = [status |-> "warning", message |-> "Product already exists"]
    /\ (im.run = 2 /\ im.dup # "throw") => Cardinality(ImportedProducts) <= 1

(***************************************************************************)
(* fetchStockXData (stockx.server.js): inputs                              *)
(***************************************************************************)
MaxVariants == 2

\* The longest listing the request pipeline is explored with.
MaxListed == 1

\* The longest listing the batching of the price fan-out is explored with.
MaxFanout == 6

\* The number of token operations in a row that is explored.
MaxTokenOps == 3

\* null or "", "  ", "FV-1" and " FV-1"
SkuInputs == { <<>>, <<" ", " ">>, ProductSku, <<" ">> \o ProductSku }

\* The token file: missing, unreadable, or holding either token or both.
TokenFiles ==
    {NoFile, [NoFile EXCEPT !.state = "corrupt"]} \cup
    { [state |-> "ok", access_token |-> fa, refresh_token |-> fr] :
        fa \in {0, 1}, fr \in {0, 1} }

\* What the token store can hold when a fetch begins: the variables unset as
\* after module load, or set by an earlier loadToken from the file.
TokenStores ==
    { [accessToken |-> 0, refreshToken |-> 0, file |-> f] : f \in TokenFiles } \cup
    { [accessToken |-> f.access_token, refreshToken |-> f.refresh_token, file |-> f] :
        f \in {g \in TokenFiles : g.state = "ok"} }

\* "42", "US 9" and "9"
Size42 == <<"4", "2">>

SizeUS9 == <<"U", "S", " ", "9">>

\* The i-th descriptor of the variant listing: variantId i, and a size chart
\* with an 'eu' conversion and a default, a default only, neither, or an 'eu'
\* conversion only (<<>> stands for a missing size).
Descriptor(i) ==
    [variantId |-> i,
     sizeChart |->
        [availableConversions |->
            IF i % 4 \in {1, 0}
            THEN << [type |-> "us m", size |-> SizeUS9], [type |-> "eu", size |-> Size42] >>
            ELSE << [type |-> "us m", size |-> SizeUS9] >>,
         defaultConversion |->
            [size |-> IF i % 4 \in {1, 2} THEN SizeUS9 ELSE <<>>]]]

\* "N/A"
NotAvailable == <<"N", "/", "A">>

StripUsPrefix_Keeps(s) == s

\* s.replace(/^US\s+/i, "")
StripUsPrefix(s) ==
    IF /\ Len(s) >= 3
       /\ s[1] \in {"U", "u"} /\ s[2] \in {"S", "s"} /\ IsSpace(s[3])
    THEN TrimLeft(SubSeq(s, 3, Len(s)))
    ELSE s

\* availableConversions?.find(c => c.type === 'eu')?.size
EuConversion(chart) ==
    LET cs == chart.availableConversions
    IN  IF \E k \in 1..Len(cs) : cs[k].type = "eu"
        THEN cs[CHOOSE k \in 1..Len(cs) :
                   cs[k].type = "eu" /\ \A j \in 1..(k - 1) : cs[j].type # "eu"].size
        ELSE <<>>

\* Lines 272-287: size_eu and size_us of a variant.
VariantSizes(variant) ==
    LET eu0 == EuConversion(variant.sizeChart)
        us0 == variant.sizeChart.defaultConversion.size
        eu1 == IF eu0 = <<>> /\ us0 # <<>> THEN us0 ELSE eu0
        eu2 == IF eu1 = <<>> THEN NotAvailable ELSE eu1
        us2 == IF us0 = <<>> THEN NotAvailable ELSE us0
    IN  [size_eu |-> StripUsPrefix(eu2), size_us |-> StripUsPrefix(us2)]

(***************************************************************************)
(* fetchStockXData: one action per awaited request                         *)
(***************************************************************************)
\* "XX-9"
StyleSku == <<"X", "X", "-", "9">>

\* hits[0] of a search answer: a product with a styleId, with a sku and no
\* styleId, or with neither.
Hits ==
    { [styleId |-> h[1], sku |-> h[2], title |-> "Dunk", brand |-> "Nike"] :
        h \in { <<StyleSku, OtherSku>>, <<<<>>, OtherSku>>, <<<<>>, <<>>>> } }

\* The hit that carries neither: the result names the SKU searched for.
ListedHit == [styleId |-> <<>>, sku |-> <<>>, title |-> "Dunk", brand |-> "Nike"]

\* while (searchAttempt < 3 ...), while (variantsAttempt < 3 ...), maxRetries
SearchAttempts == 3

VariantsAttempts == 3

maxRetries == 3

\* The concurrency limit of the price fan-out.
limit == 5

\* The answers to a search or a variant-listing request: a 401, a retryable
\* status (429, 502, 503, 504, 524), another non-OK status, a transport or
\* JSON exception, or an OK answer of some shape.
SearchResponses ==
    {"401", "retryable", "error", "exception", "ok_hits", "ok_empty", "ok_nodata"}

VariantsResponses ==
    {"401", "retryable", "error", "exception", "ok_list", "ok_notarray", "ok_null"}

MarketResponses == {"retryable", "error", "exception", "ok_ask", "ok_noask"}

\* Lines 114-132: clean the SKU, load the token, and without an access token
\* call refreshAccessToken, which gives up at once without a refresh token:
\* the call up to its first awaited request.
FetchCall(sku) ==
    /\ fx.pc = "idle"
    /\ LET clean == CleanSku(sku)
           loaded == LoadToken(tok)
           again == LoadToken(loaded)
           base == [fx EXCEPT !.sku = clean, !.tok0 = tok]
       IN  IF clean = <<>>
           THEN /\ fx' = [base EXCEPT !.pc = "rejected",
                              !.result = Failure(0, "Missing 'sku'", FALSE)]
                /\ tok' = tok
           ELSE IF loaded.accessToken # 0
           THEN /\ fx' = [base EXCEPT !.pc = "search", !.passes = 1]
                /\ tok' = loaded
           ELSE IF again.refreshToken = 0
           THEN /\ fx' = [base EXCEPT !.pc = "done", !.gate = "no_refresh_token",
                              !.result = Failure(401, "Unauthorized", TRUE)]
                /\ tok' = again
           ELSE /\ fx' = [base EXCEPT !.pc = "gateRefresh", !.gate = "pending",
                              !.tokenPosts = @ + 1]
                /\ tok' = again

\* fetchStockXData(sku) is called.
FetchStart(sku) ==
    /\ FetchCall(sku)
    /\ UNCHANGED <<ep, ld, rc, sz, mk, au, snap, shop, cat, sy, im>>

\* Lines 124-131: the answer to the refresh grant of the auth gate.
FetchGateRefresh(outcome, writeOk) ==
    /\ fx.pc = "gateRefresh"
    /\ fx' = IF Refreshed(outcome)
             THEN [fx EXCEPT !.pc = "search", !.gate = outcome, !.passes = 1,
                      !.issued = @ + 1]
             ELSE [fx EXCEPT !.pc = "done", !.gate = outcome,
                      !.result = Failure(401, "Unauthorized", TRUE)]
    /\ tok' = AfterRefresh(tok, outcome, fx.issued + 1, writeOk)
    /\ UNCHANGED <<ep, ld, rc, sz, mk, au, snap, shop, cat, sy, im>>

SearchFailedAttempt_GivesUpAtOnce(f) ==
    [f EXCEPT !.searchAttempt = @ + 1, !.pc = "done",
        !.result = Failure(404, "Search failed after retries", FALSE)]

\* The catch block of the search loop, and the loop's exit after 3 attempts.
SearchFailedAttempt(f) ==
    IF f.searchAttempt + 1 >= SearchAttempts
    THEN [f EXCEPT !.searchAttempt = @ + 1, !.pc = "done",
             !.result = Failure(404, "Search failed after retries", FALSE)]
    ELSE [f EXCEPT !.searchAttempt = @ + 1]

\* Lines 145-207: one search request and its answer.
FetchSearch(resp, hit) ==
    /\ fx.pc = "search"
    /\ LET sent == [fx EXCEPT !.searchReqs = @ + 1, !.passSearch = @ + 1,
                       !.searchAllRetryable = @ /\ resp = "retryable",
                       !.retrySearch401 = @ \/ (resp = "401" /\ fx.retry)]
           loaded == LoadToken(tok)
       IN  IF resp = "401" /\ ~fx.retry
           THEN /\ tok' = loaded
                /\ fx' = IF loaded.refreshToken = 0
                         THEN [sent EXCEPT !.refreshCalls = @ + 1, !.pc = "done",
                                  !.result = Failure(401, "Token Expired and Refresh Failed",
                                                     TRUE)]
                         ELSE [sent EXCEPT !.refreshCalls = @ + 1,
                                  !.tokenPosts = @ + 1, !.pc = "searchRefresh"]
           ELSE /\ tok' = tok
                /\ fx' = CASE resp = "ok_hits" ->
                                [sent EXCEPT !.pc = "variants", !.hit = hit]
                          [] resp = "ok_empty" ->
                                [sent EXCEPT !.pc = "done",
                                    !.result = Failure(404, "No products found", FALSE)]
                          [] resp = "ok_nodata" ->
                                [sent EXCEPT !.pc = "done",
                                    !.result = Failure(404, "Search failed after retries",
                                                       FALSE)]
                          [] OTHER -> SearchFailedAttempt(sent)
    /\ UNCHANGED <<ep, ld, rc, sz, mk, au, snap, shop, cat, sy, im>>

\* makeRequest(true): the whole request again, with fresh attempt counters.
RetryPass(f, step) ==
    [f EXCEPT !.pc = "search", !.retry = TRUE, !.via = step, !.searchAttempt = 0,
              !.variantsAttempt = 0, !.variantsRetryable = 0, !.passSearch = 0,
              !.passVariants = 0, !.passes = @ + 1, !.refreshed401 = TRUE,
              !.issued = @ + 1]

\* Lines 161-170: the answer to the refresh grant after a 401 on the search.
FetchSearchRefresh(outcome, writeOk) ==
    /\ fx.pc = "searchRefresh"
    /\ fx' = IF Refreshed(outcome) THEN RetryPass(fx, "search")
             ELSE [fx EXCEPT !.pc = "done",
                      !.result = Failure(401, "Token Expired and Refresh Failed", TRUE)]
    /\ tok' = AfterRefresh(tok, outcome, fx.issued + 1, writeOk)
    /\ UNCHANGED <<ep, ld, rc, sz, mk, au, snap, shop, cat, sy, im>>

VariantsFailedAttempt_EmptyListing(f) ==
    IF f.variantsAttempt + 1 >= VariantsAttempts
    THEN [f EXCEPT !.variantsAttempt = @ + 1, !.pc = "done",
             !.result = Failure(200, "", FALSE)]
    ELSE [f EXCEPT !.variantsAttempt = @ + 1, !.pc = "variants"]

\* The catch block of the variants loop; after 3 attempts line 256 throws and
\* the top-level catch answers 500.
VariantsFailedAttempt(f) ==
    IF f.variantsAttempt + 1 >= VariantsAttempts
    THEN [f EXCEPT !.variantsAttempt = @ + 1, !.pc = "done",
             !.result = Failure(500, "Lookup Failed", FALSE)]
    ELSE [f EXCEPT !.variantsAttempt = @ + 1, !.pc = "variants"]

\* A price lookup: attempt is the code's counter, reqs the requests sent, last
\* the latest answer and the ask it carried.
NewTask ==
    [state |-> "idle", attempt |-> 0, reqs |-> 0, price |-> NoAsk, end |-> "-",
     last |-> [resp |-> "-", ask |-> 0]]

StartBatch_WholeListing(tasks, i) ==
    [k \in 1..Len(tasks) |->
        IF k > i THEN [tasks[k] EXCEPT !.state = "running"] ELSE tasks[k]]

\* The tasks of variants.slice(i, i + limit) are started.
StartBatch(tasks, i) ==
    [k \in 1..Len(tasks) |->
        IF k > i /\ k <= i + limit THEN [tasks[k] EXCEPT !.state = "running"]
        ELSE tasks[k]]

\* Lines 217-267 and 342-344: one variant-listing request and its answer; a
\* listing starts the first batch of price lookups.
FetchVariants(resp, n) ==
    /\ fx.pc = "variants"
    /\ LET sent == [fx EXCEPT !.variantReqs = @ + 1, !.passVariants = @ + 1,
                       !.variantsRetryable =
                           IF resp \in {"retryable", "exception"} THEN @ + 1 ELSE @]
           loaded == LoadToken(tok)
       IN  IF resp = "401" /\ ~fx.retry
           THEN /\ tok' = loaded
                /\ fx' = IF loaded.refreshToken = 0
                         THEN VariantsFailedAttempt([sent EXCEPT !.refreshCalls = @ + 1])
                         ELSE [sent EXCEPT !.refreshCalls = @ + 1,
                                  !.tokenPosts = @ + 1, !.pc = "variantsRefresh"]
           ELSE /\ tok' = tok
                /\ fx' = CASE resp = "ok_list" /\ n = 0 ->
                                [sent EXCEPT !.pc = "done", !.listed = TRUE,
                                    !.result = Failure(200, "", FALSE)]
                          [] resp = "ok_list" /\ n > 0 ->
                                [sent EXCEPT !.pc = "prices", !.listed = TRUE, !.n = n,
                                    !.batch = 0,
                                    !.tasks = StartBatch([k \in 1..n |-> NewTask], 0)]
                          [] resp = "ok_notarray" ->
                                [sent EXCEPT !.pc = "done",
                                    !.result = Failure(500, "invalid response", FALSE)]
                          [] resp = "ok_null" ->
                                [sent EXCEPT !.pc = "done",
                                    !.result = Failure(500, "Lookup Failed", FALSE)]
                          [] OTHER -> VariantsFailedAttempt(sent)
    /\ UNCHANGED <<ep, ld, rc, sz, mk, au, snap, shop, cat, sy, im>>

\* Lines 225-229: the answer to the refresh grant after a 401 on the listing;
\* a failed refresh falls through to the !ok branch of the loop.
FetchVariantsRefresh(outcome, writeOk) ==
    /\ fx.pc = "variantsRefresh"
    /\ fx' = IF Refreshed(outcome) THEN RetryPass(fx, "variants")
             ELSE VariantsFailedAttempt(fx)
    /\ tok' = AfterRefresh(tok, outcome, fx.issued + 1, writeOk)
    /\ UNCHANGED <<ep, ld, rc, sz, mk, au, snap, shop, cat, sy, im>>

TaskAfter_ErrorRetried(task, resp, ask) ==
    LET sent == [task EXCEPT !.reqs = @ + 1,
                    !.last = [resp |-> resp, ask |-> IF resp = "ok_ask" THEN ask ELSE 0]]
    IN  CASE resp = "ok_ask" ->
                [sent EXCEPT !.state = "done", !.price = FormatAsk(ask), !.end = "ask"]
          [] resp = "ok_noask" -> [sent EXCEPT !.state = "done", !.end = "noask"]
          [] OTHER ->
                IF task.attempt + 1 >= maxRetries
                THEN [sent EXCEPT !.attempt = @ + 1, !.state = "done",
                         !.end = "exhausted"]
                ELSE [sent EXCEPT !.attempt = @ + 1]

\* Lines 294-330: one attempt of fetchVariantPrice and its answer.
TaskAfter(task, resp, ask) ==
    LET sent == [task EXCEPT !.reqs = @ + 1,
                    !.last = [resp |-> resp, ask |-> IF resp = "ok_ask" THEN ask ELSE 0]]
    IN  CASE resp = "ok_ask" ->
                [sent EXCEPT !.state = "done", !.price = FormatAsk(ask), !.end = "ask"]
          [] resp = "ok_noask" -> [sent EXCEPT !.state = "done", !.end = "noask"]
          [] resp = "error" -> [sent EXCEPT !.state = "done", !.end = "error"]
          [] OTHER ->
                IF task.attempt + 1 >= maxRetries
                THEN [sent EXCEPT !.attempt = @ + 1, !.state = "done",
                         !.end = "exhausted"]
                ELSE [sent EXCEPT !.attempt = @ + 1]

FetchMarket(i, resp, ask) ==
    /\ fx.pc = "prices"
    /\ i \in 1..fx.n
    /\ fx.tasks[i].state = "running"
    /\ fx' = [fx EXCEPT !.tasks[i] = TaskAfter(fx.tasks[i], resp, ask)]
    /\ UNCHANGED <<ep, ld, rc, sz, mk, au, snap, shop, cat, sy, im, tok>>

\* Lines 332-337: the quote a finished task returns.
Quote(i, task) ==
    [size_eu |-> VariantSizes(Descriptor(i)).size_eu,
     size_us |-> VariantSizes(Descriptor(i)).size_us,
     price |-> task.price,
     variantId |-> Descriptor(i).variantId]

BatchEnd(f) == IF f.batch + limit < f.n THEN f.batch + limit ELSE f.n

\* Lines 342-370: Promise.all of a batch resolves; the next batch starts, or
\* the snapshot is returned.
FetchBatchJoin ==
    /\ fx.pc = "prices"
    /\ \A k \in (fx.batch + 1)..BatchEnd(fx) : fx.tasks[k].state = "done"
    /\ LET results == fx.quotes \o
                         [k \in 1..(BatchEnd(fx) - fx.batch) |->
                             Quote(fx.batch + k, fx.tasks[fx.batch + k])]
       IN  fx' = IF fx.batch + limit < fx.n
                 THEN [fx EXCEPT !.quotes = results, !.batch = @ + limit,
                          !.tasks = StartBatch(fx.tasks, fx.batch + limit)]
                 ELSE [fx EXCEPT !.quotes = results, !.pc = "done",
                          !.result = Failure(200, "", FALSE)]
    /\ UNCHANGED <<ep, ld, rc, sz, mk, au, snap, shop, cat, sy, im, tok>>

FetchInit ==
    /\ tok \in TokenStores
    /\ fx = FetchIdle
    /\ mk = MarkupIdle
    /\ sz = SizesIdle
    /\ rc = RaceIdle
    /\ ep = EndpointIdle
    /\ ld = LoaderIdle
    /\ au = AuthIdle
    /\ snap = [product_info |-> [sku |-> ProductSku, title |-> "Dunk", brand |-> "Nike"],
               variants |-> <<>>]
    /\ shop = Storefront(<<>>)
    /\ cat = NoCatalog
    /\ sy = SyncIdle
    /\ im = ImportIdle

FetchNext ==
    \/ \E sku \in SkuInputs : FetchStart(sku)
    \/ \E o \in RefreshOutcomes, w \in BOOLEAN : FetchGateRefresh(o, w)
    \/ \E r \in SearchResponses : FetchSearch(r, ListedHit)
    \/ \E o \in RefreshOutcomes, w \in BOOLEAN : FetchSearchRefresh(o, w)
    \/ \E r \in VariantsResponses, n \in 0..MaxListed : FetchVariants(r, n)
    \/ \E o \in RefreshOutcomes, w \in BOOLEAN : FetchVariantsRefresh(o, w)
    \/ \E i \in 1..MaxListed, r \in MarketResponses, a \in Asks : FetchMarket(i, r, a)
    \/ FetchBatchJoin

\* The request pipeline under every token store and every answer to the
\* search, listing and refresh requests, over short listings.
SpecFetch == FetchInit /\ [][FetchNext]_vars

\* The price fan-out: a signed-in store, every answer to the market requests
\* of a listing of up to MaxVariants variants.
PricesInit ==
    /\ FetchInit
    /\ tok.accessToken # 0
    /\ tok.refreshToken # 0

PricesNext ==
    \/ FetchStart(ProductSku)
    \/ \E r \in {"retryable", "ok_hits"} : FetchSearch(r, ListedHit)
    \/ \E r \in {"retryable", "ok_list"}, n \in 0..MaxVariants : FetchVariants(r, n)
    \/ \E i \in 1..MaxVariants, r \in MarketResponses, a \in Asks : FetchMarket(i, r, a)
    \/ FetchBatchJoin

SpecPrices == PricesInit /\ [][PricesNext]_vars

\* The batching of the price fan-out: listings longer than one batch, each
\* market request answered with an ask or with a retryable status.
FanoutInit == PricesInit

FanoutNext ==
    \/ FetchStart(ProductSku)
    \/ FetchSearch("ok_hits", ListedHit)
    \/ \E n \in 0..MaxFanout : FetchVariants("ok_list", n)
    \/ \E i \in 1..MaxFanout, r \in {"ok_ask", "retryable"} : FetchMarket(i, r, 120)
    \/ FetchBatchJoin

SpecFanout == FanoutInit /\ [][FanoutNext]_vars

(***************************************************************************)
(* Claims about fetchStockXData                                            *)
(***************************************************************************)
MarketRequests(f) ==
    IF f.tasks = <<>> THEN 0
    ELSE LET sum[k \in 0..Len(f.tasks)] ==
                 IF k = 0 THEN 0 ELSE sum[k - 1] + f.tasks[k].reqs
         IN  sum[Len(f.tasks)]

\* C5 (as stated): fetchStockXData never throws or rejects; for every sku
\* argument, null, empty and whitespace-only included, the returned promise
\* resolves to a result object carrying a status.
C5_NeverRejects == fx.pc # "rejected"

\* C6: when every search request is answered with a retryable status, the
\* fetch sends at most 3 search requests and no variant-listing or
\* market-data request, and it ends, after exactly 3 search requests, with
\* the status-404 result 'Search failed after retries', not with a rejection.
C6_SearchRetryCeiling ==
    (fx.searchAllRetryable /\ fx.searchReqs > 0)
        => /\ fx.searchReqs <= 3
           /\ fx.variantReqs = 0
           /\ MarketRequests(fx) = 0
           /\ fx.pc \in {"search", "done"}
           /\ fx.pc = "search" => fx.searchReqs < 3
           /\ fx.pc = "done"
                 => /\ fx.searchReqs = 3
                    /\ fx.result = Failure(404, "Search failed after retries", FALSE)

C6_Witness ==
    /\ fx.pc = "done"
    /\ fx.searchAllRetryable
    /\ fx.searchReqs = 3
    /\ fx.result.status = 404

\* C7 (as stated): when a search request returned 401, the refresh succeeded
\* and a search of the retried request returned 401 again, the fetch ends
\* with a status-401 result carrying the login hint.
C7_SecondUnauthorizedSurfaces ==
    (fx.pc = "done" /\ fx.via = "search" /\ fx.retrySearch401)
        => (fx.result.status = 401 /\ fx.result.action)

\* C8 (as stated): during one fetch at most one token refresh is attempted in
\* response to 401 answers of the search and variant-listing steps, and the
\* whole request is retried at most once.
C8_AtMostOneRefreshOn401 == fx.refreshCalls <= 1 /\ fx.passes <= 2

NoAccessToken(t) ==
    t.accessToken = 0 /\ (t.file.state = "ok" => t.file.access_token = 0)

RefreshFailures == {"no_refresh_token", "rejected", "exception"}

\* C9: a fetch that begins with no access token in memory or in the token
\* file attempts a refresh; when the refresh fails (no refresh token, an
\* upstream rejection or an exception), the fetch ends with status 401
\* 'Unauthorized' and the login hint, and has sent no search,
\* variant-listing or market-data request.
C9_AuthGate ==
    (fx.pc \notin {"idle", "rejected"} /\ NoAccessToken(fx.tok0))
        => /\ fx.gate # "none"
           /\ fx.gate \in RefreshFailures
                 => /\ fx.pc = "done"
                    /\ fx.result = Failure(401, "Unauthorized", TRUE)
                    /\ fx.searchReqs = 0
                    /\ fx.variantReqs = 0
                    /\ MarketRequests(fx) = 0

C9_Witness ==
    /\ fx.pc = "done"
    /\ NoAccessToken(fx.tok0)
    /\ fx.tok0.file.state = "ok"
    /\ fx.gate = "rejected"
    /\ fx.result.status = 401

\* The price a lookup's own latest answer determines.
PriceOf(task) ==
    IF task.last.resp = "ok_ask" THEN FormatAsk(task.last.ask) ELSE NoAsk

\* C10: once the variants are listed, whatever each market-data lookup
\* meets, the fetch ends with status 200 and one quote per listed variant,
\* the i-th carrying the i-th variant's id and the price its own lookup
\* determined; a lookup answered with a non-retriable HTTP error ends there
\* with 'No Ask' (after one request when that answer is its first).
C10_PerVariantIsolation ==
    /\ \A i \in 1..Len(fx.tasks) :
          fx.tasks[i].last.resp = "error"
              => /\ fx.tasks[i].state = "done"
                 /\ fx.tasks[i].price = NoAsk
                 /\ fx.tasks[i].reqs = fx.tasks[i].attempt + 1
    /\ (fx.pc = "done" /\ fx.listed)
          => /\ fx.result.status = 200
             /\ Len(fx.quotes) = fx.n
             /\ \A i \in 1..fx.n :
                   /\ fx.quotes[i].variantId = Descriptor(i).variantId
                   /\ fx.quotes[i].price = PriceOf(fx.tasks[i])

C10_Witness ==
    /\ fx.pc = "done"
    /\ fx.n = 2
    /\ fx.tasks[1].last.resp = "error"
    /\ fx.tasks[1].reqs = 1
    /\ fx.tasks[2].last.resp = "ok_ask"
    /\ fx.quotes[1].price = NoAsk
    /\ fx.quotes[2].price = FormatAsk(120)

(***************************************************************************)
(* TokenStore: the operations, one after another                           *)
(***************************************************************************)
NoTokenData == [access_token |-> 0, refresh_token |-> 0]

\* The refresh token the store holds, in memory or in the file.
HeldRefreshToken(t) ==
    IF t.refreshToken # 0 THEN t.refreshToken
    ELSE IF t.file.state = "ok" THEN t.file.refresh_token ELSE 0

\* The record of an operation: whether it returned true (success), whether it
\* sent a token request, whether writeFileSync succeeded, and the body of an
\* OK answer.
Operation(a, name, before, returned, posted, writeOk, response) ==
    [op |-> name, returned |-> returned, posted |-> posted,
     wrote |-> returned /\ writeOk, response |-> response, before |-> before,
     received |-> IF response.refresh_token # 0 THEN response.refresh_token
                  ELSE a.received,
     writeFailed |-> a.writeFailed \/ (returned /\ ~writeOk),
     ops |-> a.ops + 1,
     issued |-> IF returned THEN a.issued + 1 ELSE a.issued,
     exchanged |-> NoExchange,
     called |-> before,
     inflight |-> a.inflight]

\* loadToken on its own (the auth check of a fetch).
TokenLoad ==
    /\ au.ops < MaxTokenOps
    /\ tok' = LoadToken(tok)
    /\ au' = Operation(au, "load", tok, FALSE, FALSE, TRUE, NoTokenData)
    /\ UNCHANGED <<ep, ld, rc, sz, mk, snap, shop, cat, sy, im, fx>>

\* The server process starts anew and loads the module (lines 13-14): both
\* variables are null again and the file stays. A refresh the old process was
\* awaiting ends with that process: its answer is never handled.
TokenRestart ==
    /\ au.ops < MaxTokenOps
    /\ tok' = [tok EXCEPT !.accessToken = 0, !.refreshToken = 0]
    /\ au' = [Operation(au, "restart", tok, FALSE, FALSE, TRUE, NoTokenData)
                 EXCEPT !.inflight = 0]
    /\ UNCHANGED <<ep, ld, rc, sz, mk, snap, shop, cat, sy, im, fx>>

\* The answers of the token endpoint to an authorization-code grant: those of
\* a refresh grant, a second rejection with another JSON body, and a rejection
\* whose body is not JSON (the error page of a gateway).
ExchangeOutcomes == RefreshOutcomes \cup {"rejected_other", "rejected_not_json"}

\* tokenResponse.ok
ExchangeOk(outcome) == outcome \in {"ok", "ok_no_refresh_token"}

\* The text of the response body.
ExchangeBody(outcome) ==
    CASE outcome = "rejected" -> "{\"error\":\"invalid_grant\"}"
      [] outcome = "rejected_other" -> "{\"error\":\"invalid_client\"}"
      [] outcome = "rejected_not_json" -> "<html>504 Gateway Time-out</html>"
      [] outcome \in {"ok", "ok_no_refresh_token"} -> "{\"access_token\":...}"
      [] OTHER -> ""

\* await tokenResponse.json() throws on a body that is not JSON.
BodyIsJson(outcome) == outcome \notin {"rejected_not_json", "exception"}

\* exchangeCodeForToken: how the promise settles. Neither await is inside a
\* try, so a throwing fetch or json() rejects the promise.
ExchangeResult(outcome) ==
    LET answer == IF outcome = "exception" THEN "none"
                  ELSE IF ExchangeOk(outcome) THEN "ok" ELSE "non_ok"
    IN  IF outcome = "exception" \/ ~BodyIsJson(outcome)
        THEN [answer |-> answer, body |-> ExchangeBody(outcome),
              settled |-> "rejected", success |-> FALSE, error |-> ""]
        ELSE IF ExchangeOk(outcome)
        THEN [answer |-> answer, body |-> ExchangeBody(outcome),
              settled |-> "returned", success |-> TRUE, error |-> ""]
        ELSE [answer |-> answer, body |-> ExchangeBody(outcome),
              settled |-> "returned", success |-> FALSE,
              error |-> ExchangeBody(outcome)]

\* exchangeCodeForToken: an OK answer is saved and success is returned; an
\* exception leaves the function.
TokenExchange(outcome, writeOk) ==
    /\ au.ops < MaxTokenOps
    /\ LET ok == ExchangeOk(outcome)
           data == IF ok THEN TokenData(outcome, au.issued + 1) ELSE NoTokenData
       IN  /\ tok' = IF ok THEN SaveToken(tok, data, writeOk) ELSE tok
           /\ au' = [Operation(au, "exchange", tok, ok, TRUE, writeOk, data)
                        EXCEPT !.exchanged = ExchangeResult(outcome)]
    /\ UNCHANGED <<ep, ld, rc, sz, mk, snap, shop, cat, sy, im, fx>>

\* refreshAccessToken up to its first await (lines 80-94): loadToken, then
\* without a refresh token false at once, otherwise the refresh grant is sent
\* with the refresh token held at that moment.
TokenRefreshStart ==
    /\ au.ops < MaxTokenOps
    /\ au.inflight = 0
    /\ LET loaded == LoadToken(tok)
       IN  /\ tok' = loaded
           /\ au' = IF loaded.refreshToken = 0
                    THEN Operation(au, "refresh", tok, FALSE, FALSE, TRUE, NoTokenData)
                    ELSE [Operation(au, "refreshStart", tok, FALSE, TRUE, TRUE, NoTokenData)
                             EXCEPT !.inflight = loaded.refreshToken]
    /\ UNCHANGED <<ep, ld, rc, sz, mk, snap, shop, cat, sy, im, fx>>

\* refreshAccessToken once the answer is in (lines 97-110): an OK answer is
\* saved into the store as it is by then.
TokenRefreshAnswer(outcome, writeOk) ==
    /\ au.inflight # 0
    /\ LET data == IF Refreshed(outcome) THEN TokenData(outcome, au.issued + 1)
                   ELSE NoTokenData
       IN  /\ tok' = AfterRefresh(tok, outcome, au.issued + 1, writeOk)
           /\ au' = [Operation(au, "refresh", tok, Refreshed(outcome), TRUE,
                               writeOk, data)
                        EXCEPT !.inflight = 0, !.ops = au.ops, !.called = au.called]
    /\ UNCHANGED <<ep, ld, rc, sz, mk, snap, shop, cat, sy, im, fx>>

TokenInit ==
    /\ tok \in TokenStores
    /\ mk = MarkupIdle
    /\ sz = SizesIdle
    /\ rc = RaceIdle
    /\ ep = EndpointIdle
    /\ ld = LoaderIdle
    /\ au = [AuthIdle EXCEPT !.before = tok, !.received = HeldRefreshToken(tok)]
    /\ fx = FetchIdle
    /\ snap = [product_info |-> [sku |-> ProductSku, title |-> "Dunk", brand |-> "Nike"],
               variants |-> <<>>]
    /\ shop = Storefront(<<>>)
    /\ cat = NoCatalog
    /\ sy = SyncIdle
    /\ im = ImportIdle

TokenNext ==
    \/ TokenLoad
    \/ TokenRestart
    \/ \E o \in ExchangeOutcomes, w \in BOOLEAN : TokenExchange(o, w)
    \/ TokenRefreshStart
    \/ \E o \in RefreshOutcomes, w \in BOOLEAN : TokenRefreshAnswer(o, w)

SpecToken == TokenInit /\ [][TokenNext]_vars

(***************************************************************************)
(* Claims about the price fan-out and the token store                      *)
(***************************************************************************)
\* The lookups that have started and not yet returned (their retries and
\* backoff waits included).
InFlight(f) == {i \in 1..Len(f.tasks) : f.tasks[i].state = "running"}

\* The batch (0, 1, ...) of the i-th listed variant.
BatchOf(i) == (i - 1) \div 5

\* C11: in every state of a fetch at most 5 market-data lookups are in
\* flight, and no lookup of a later batch has started while a lookup of an
\* earlier batch has not completed.
C11_BoundedFanout ==
    /\ Cardinality(InFlight(fx)) <= 5
    /\ \A i, j \in 1..Len(fx.tasks) :
          (BatchOf(i) < BatchOf(j) /\ fx.tasks[j].state # "idle")
              => fx.tasks[i].state = "done"

C11_Witness ==
    /\ fx.pc = "prices"
    /\ fx.n = 6
    /\ fx.tasks[6].state = "running"
    /\ fx.tasks[6].attempt = 1
    /\ fx.tasks[1].end = "exhausted"
    /\ \A i \in 1..5 : fx.tasks[i].state = "done"

(***************************************************************************)
(* Claims about failures in the import and update flows                    *)
(***************************************************************************)
\* C12: when productCreate reports user errors or throws, the import has
\* ended, no variant bulk-create, price update, inventory update or
\* collection-add was issued, and the action answers with status 'error' and
\* a message.
C12_CreateFailureFatal ==
    "productCreate" \in FailedOps(im, {"userErrors", "throw"})
        => /\ im.pc \in {"done", "thrown"}
           /\ IssuedOps(im.calls) \cap
                 {"productVariantsBulkCreate", "productVariantsBulkUpdate",
                  "inventoryItemUpdate", "collectionAddProducts"} = {}
           /\ im.calls[Len(im.calls)].op = "productCreate"
           /\ ActionResponse(im).status = "error"
           /\ ActionResponse(im).message # ""

C12_Witness ==
    /\ "productCreate" \in FailedOps(im, {"throw"})
    /\ im.pc = "thrown"
    /\ Len(im.vfs) = 2
    /\ ActionResponse(im) = [status |-> "error", message |-> "Product Create Failed"]

AnyFailure == {"userErrors", "throw"}

\* The import flow's half of C13: after a failed inventory update the loop
\* has still issued the update of every matched variant, the collection add
\* has run, and the import reports success unless a later request threw.
C13_ImportPart ==
    ("inventoryItemUpdate" \in FailedOps(im, AnyFailure) /\ im.pc \in {"done", "thrown"})
        => /\ CallsOf(im.calls, "inventoryItemUpdate") = Range(InventoryCalls(im.matched))
           /\ im.existingCollection = "manual"
                 => "collectionAddProducts" \in IssuedOps(im.calls)
           /\ "collectionAddProducts" \notin FailedOps(im, {"throw"})
                 => im.result.status = "success"

\* The update flow's half of C13: a failed inventory update leaves every
\* other update issued and does not end the run; the option query follows
\* and the run reports success (unless the query or the reorder threw).
C13_UpdatePart ==
    ( /\ "inventoryItemUpdate" \in FailedOps(sy, AnyFailure)
      /\ FailedOps(sy, {"throw"}) \cap {"getProductOptions", "productOptionsReorder"} = {} )
        => /\ CallsOf(sy.calls, "inventoryItemUpdate") = Range(InventoryCalls(sy.matched))
           /\ sy.pc # "thrown"
           /\ sy.pc = "done"
                 => /\ sy.result.status = "success"
                    /\ "getProductOptions" \in IssuedOps(sy.calls)

\* C13 (as stated): in the import flow and in the update flow a failed
\* inventoryItemUpdate of one variant (user errors or a thrown error) leaves
\* the other variants' updates issued, the later steps running and the
\* operation reporting success.
C13_InventoryFailuresNonFatal == C13_ImportPart /\ C13_UpdatePart

\* C14 (as stated): when the option query or the productOptionsReorder
\* mutation fails (user errors or a thrown error), updateShopifyProduct still
\* returns status 'success' and the deletes, creates and price updates of
\* the run stay in effect.
C14_ReorderFailuresNonFatal ==
    ( /\ FailedOps(sy, AnyFailure) \cap {"getProductOptions", "productOptionsReorder"} # {}
      /\ "inventoryItemUpdate" \notin FailedOps(sy, {"throw"}) )
        => /\ sy.pc # "thrown"
           /\ sy.pc = "done" => sy.result.status = "success"
           /\ Converged

\* C15: when the duplicate query, the collection lookup or the
\* collectionCreate mutation throws, the import goes on as if nothing had
\* been found: no 'already exists' warning, no collection taken as found by
\* a failed lookup, and the productCreate mutation is issued before the
\* import ends.
C15_LookupFailuresNonFatal ==
    FailedOps(im, {"throw"}) \cap {"products", "collections", "collectionCreate"} # {}
        => /\ im.result.status # "warning"
           /\ im.pc \in {"collectionQuery", "collectionCreate", "productCreate",
                          "bulkCreate", "priceUpdate", "inventory", "done", "thrown"}
           /\ im.pc \in {"bulkCreate", "priceUpdate", "inventory", "done", "thrown"}
                 => "productCreate" \in IssuedOps(im.calls)
           /\ "collections" \in FailedOps(im, {"throw"})
                 => im.existingCollection = "none"

C15_Witness ==
    /\ "products" \in FailedOps(im, {"throw"})
    /\ DuplicateAtStart
    /\ im.run = 1
    /\ im.pc = "done"
    /\ im.result.status = "success"
    /\ "productCreate" \in IssuedOps(im.calls)

\* C16 (as stated): once productCreate has succeeded, a failure of the
\* collectionAddProducts mutation for a manual brand collection (user errors
\* or a thrown error) leaves the import reporting status 'success'.
C16_CollectionAddSwallowed ==
    "collectionAddProducts" \in FailedOps(im, AnyFailure)
        => /\ im.pc = "done"
           /\ ActionResponse(im).status = "success"

\* The last operation called saveToken (an exchange or a refresh got an OK
\* answer).
Saved == au.op \in {"exchange", "refresh"} /\ au.returned

\* The store as saveToken found it.
BeforeSave == au.before

\* C17: an access token held in memory is the one the token file holds; a
\* save whose write succeeded leaves the answer's access token in the file
\* and in memory, and a save whose write failed leaves the in-memory access
\* and refresh tokens (and the file) as they were.
C17_WriteThrough ==
    /\ tok.accessToken # 0
          => (tok.file.state = "ok" /\ tok.file.access_token = tok.accessToken)
    /\ (Saved /\ au.wrote)
          => /\ tok.file.access_token = au.response.access_token
             /\ tok.accessToken = au.response.access_token
    /\ (Saved /\ ~au.wrote) => tok = BeforeSave

C17_Witness ==
    /\ Saved
    /\ ~au.wrote
    /\ au.response.access_token = 3
    /\ tok.accessToken = 2
    /\ tok.file.access_token = 2

\* C18 (as stated): whenever refreshAccessToken returns true or
\* exchangeCodeForToken returns success, the new token state is in the token
\* file and the in-memory access token is the access_token of the answer.
C18_SuccessMeansPersisted ==
    Saved => /\ tok.file.state = "ok"
             /\ tok.file.access_token = au.response.access_token
             /\ tok.accessToken = au.response.access_token

\* C19: after exchanges and refreshes whose saves all succeeded, when the
\* latest answer omits refresh_token, the token file and the in-memory
\* refresh token both hold the most recently received refresh token, and the
\* access token, in the file and in memory, is the new one.
C19_RefreshTokenPreserved ==
    (Saved /\ au.response.refresh_token = 0 /\ ~au.writeFailed)
        => /\ tok.file.refresh_token = au.received
           /\ tok.refreshToken = au.received
           /\ tok.file.access_token = au.response.access_token
           /\ tok.accessToken = au.response.access_token

C19_Witness ==
    /\ au.op = "refresh"
    /\ Saved
    /\ ~au.writeFailed
    /\ au.response = [access_token |-> 3, refresh_token |-> 0]
    /\ au.received = 2
    /\ tok.refreshToken = 2
    /\ tok.file = [state |-> "ok", access_token |-> 3, refresh_token |-> 2]

\* C20: refreshAccessToken sends no token request when no refresh token is
\* held in memory or in the token file; whenever it returns false the token
\* file is as it was and an access token held in memory is not replaced (an
\* empty variable may have been filled from the file by loadToken).
C20_FailedRefreshFrame ==
    /\ au.op = "refreshStart"
          => /\ tok.file = au.before.file
             /\ au.before.accessToken # 0 => tok.accessToken = au.before.accessToken
    /\ (au.op = "refresh" /\ ~au.returned)
        => /\ HeldRefreshToken(au.called) = 0 => ~au.posted
           /\ ~au.wrote
           /\ tok.file = au.before.file
           /\ au.before.accessToken # 0 => tok.accessToken = au.before.accessToken
           /\ tok.accessToken \in {au.before.accessToken, au.before.file.access_token}

C20_Witness ==
    /\ au.op = "refresh"
    /\ ~au.returned
    /\ au.posted
    /\ au.before.accessToken # 0
    /\ tok = au.before

(***************************************************************************)
(* calculateMarkupPrice (shopify.sync.js) applied to base prices           *)
(***************************************************************************)
\* The largest base price (in whole currency units) that is explored.
MaxBase == 410

\* Base prices in steps of half a unit, scaled by Scale.
BasePrices == {h * (Scale \div 2) : h \in 0..(2 * MaxBase)}

MarkupInit ==
    /\ \E p1 \in BasePrices, p2 \in BasePrices :
          /\ p1 <= p2
          /\ mk = [MarkupIdle EXCEPT !.pc = "called", !.p1 = p1, !.p2 = p2]
    /\ sz = SizesIdle
    /\ rc = RaceIdle
    /\ ep = EndpointIdle
    /\ ld = LoaderIdle
    /\ au = AuthIdle
    /\ tok = NoTokens
    /\ fx = FetchIdle
    /\ snap = [product_info |-> [sku |-> ProductSku, title |-> "Dunk", brand |-> "Nike"],
               variants |-> <<>>]
    /\ shop = Storefront(<<>>)
    /\ cat = NoCatalog
    /\ sy = SyncIdle
    /\ im = ImportIdle

\* Two calls of calculateMarkupPrice return.
MarkupReturn ==
    /\ mk.pc = "called"
    /\ mk' = [mk EXCEPT !.pc = "returned",
                        !.out1 = calculateMarkupPrice(mk.p1),
                        !.out2 = calculateMarkupPrice(mk.p2),
                        !.text = toFixed(calculateMarkupPrice(mk.p1))]
    /\ UNCHANGED <<ep, ld, rc, sz, snap, shop, cat, sy, im, tok, fx, au>>

MarkupNext == MarkupReturn

SpecMarkup == MarkupInit /\ [][MarkupNext]_vars

\* The markup the tier table of the specification gives a base price.
TierMarkup(p) ==
    IF p <= 100 * Scale THEN 40
    ELSE IF p <= 200 * Scale THEN 55
    ELSE IF p <= 400 * Scale THEN 75
    ELSE 110

\* The multiples of 5 (in cents) nearest to a price scaled by Scale.
NearestFives(price) ==
    {500 * k : k \in {j \in 0..((MaxBase + 115) \div 5) :
                        2 * (5 * j * Scale - price) <= 5 * Scale
                        /\ 2 * (price - 5 * j * Scale) <= 5 * Scale}}

\* C22: for a whole base price p, calculateMarkupPrice(p) is the multiple of
\* 5 nearest to p + m, less 0.10, with m = 40 up to 100, 55 up to 200, 75 up
\* to 400 and 110 above; markup(100) = 139.90 and markup(150) = 204.90; equal
\* inputs give equal outputs.
C22_MarkupFormula ==
    mk.pc = "returned"
        => /\ mk.p1 % Scale = 0
                => /\ mk.out1 + 10 \in NearestFives(mk.p1 + TierMarkup(mk.p1) * Scale)
                   /\ Cardinality(NearestFives(mk.p1 + TierMarkup(mk.p1) * Scale)) = 1
           /\ mk.p1 = 100 * Scale => mk.out1 = 13990
           /\ mk.p1 = 150 * Scale => mk.out1 = 20490
           /\ mk.p1 = mk.p2 => mk.out1 = mk.out2

C22_Witness ==
    /\ mk.pc = "returned"
    /\ mk.p1 = 150 * Scale
    /\ mk.out1 = 20490
    /\ mk.text = <<"2", "0", "4", ".", "9", "0">>

\* The markup tier of a base price: 1 up to 100, 2 up to 200, 3 up to 400, 4
\* above.
Tier(p) ==
    IF p <= 100 * Scale THEN 1
    ELSE IF p <= 200 * Scale THEN 2
    ELSE IF p <= 400 * Scale THEN 3
    ELSE 4

\* C23: for base prices p1 < p2 of the same markup tier,
\* calculateMarkupPrice(p1) <= calculateMarkupPrice(p2).
C23_MonotoneWithinTier ==
    (mk.pc = "returned" /\ mk.p1 < mk.p2 /\ Tier(mk.p1) = Tier(mk.p2))
        => mk.out1 <= mk.out2

C23_Witness ==
    /\ mk.pc = "returned"
    /\ mk.p1 = 102 * Scale
    /\ mk.p2 = 103 * Scale
    /\ Tier(mk.p1) = Tier(mk.p2)
    /\ mk.out1 = 15490
    /\ mk.out2 = 15990

(***************************************************************************)
(* fetchVariantPrice (stockx.server.js): the sizes of one variant          *)
(***************************************************************************)
\* The longest list of conversions of a size chart that is explored.
MaxConversions == 2

\* The size texts of the explored charts: "42", "US 9", "us  XS", "US " and
\* "US"; <<>> is a missing or empty size.
SizeTexts ==
    {Size42, SizeUS9, <<"u", "s", " ", " ", "X", "S">>, <<"U", "S", " ">>, <<"U", "S">>}

Conversions == [type : {"eu", "us m"}, size : SizeTexts \cup {<<>>}]

SizeCharts ==
    [availableConversions : BoundedSeqs(Conversions, MaxConversions),
     defaultConversion : [size : SizeTexts \cup {<<>>}]]

SizesInit ==
    /\ \E chart \in SizeCharts :
          sz = [SizesIdle EXCEPT !.pc = "called",
                                 !.variant = [variantId |-> 1, sizeChart |-> chart]]
    /\ mk = MarkupIdle
    /\ rc = RaceIdle
    /\ ep = EndpointIdle
    /\ ld = LoaderIdle
    /\ au = AuthIdle
    /\ tok = NoTokens
    /\ fx = FetchIdle
    /\ snap = [product_info |-> [sku |-> ProductSku, title |-> "Dunk", brand |-> "Nike"],
               variants |-> <<>>]
    /\ shop = Storefront(<<>>)
    /\ cat = NoCatalog
    /\ sy = SyncIdle
    /\ im = ImportIdle

\* Lines 272-287 of fetchVariantPrice have run.
SizesReturn ==
    /\ sz.pc = "called"
    /\ sz' = [sz EXCEPT !.pc = "returned", !.sizes = VariantSizes(sz.variant)]
    /\ UNCHANGED <<ep, ld, rc, snap, shop, cat, sy, im, tok, fx, au, mk>>

SizesNext == SizesReturn

SpecSizes == SizesInit /\ [][SizesNext]_vars

\* The size of the first 'eu'-typed conversion of the chart (<<>> if none).
EuTyped ==
    LET cs == sz.variant.sizeChart.availableConversions
        eu == {k \in 1..Len(cs) : cs[k].type = "eu"}
    IN  IF eu = {} THEN <<>>
        ELSE cs[CHOOSE k \in eu : \A j \in eu : k <= j].size

\* The size of the default conversion (<<>> if none).
DefaultSize == sz.variant.sizeChart.defaultConversion.size

\* The text without a leading "US" token (any case) and the white space after it.
WithoutUsToken(s) ==
    IF Len(s) >= 3 /\ s[1] \in {"U", "u"} /\ s[2] \in {"S", "s"} /\ s[3] = " "
    THEN LET rest == {k \in 3..(Len(s) + 1) : \A j \in 3..(k - 1) : s[j] = " "}
             first == CHOOSE k \in rest : \A j \in rest : j <= k
         IN  SubSeq(s, first, Len(s))
    ELSE s

\* The sizes the claim gives the variant.
ClaimedSizes ==
    [size_eu |-> WithoutUsToken(IF EuTyped # <<>> THEN EuTyped
                                ELSE IF DefaultSize # <<>> THEN DefaultSize
                                ELSE NotAvailable),
     size_us |-> WithoutUsToken(IF DefaultSize # <<>> THEN DefaultSize
                                ELSE NotAvailable)]

\* C24 (as stated): the EU size is the 'eu'-typed conversion if present, else
\* the default conversion, else "N/A"; the US size is the default conversion,
\* else "N/A"; a leading "US " token is stripped from both; no 'eu'
\* conversion and a default of "US 9" give "9" for both; and neither size is
\* ever empty.
C24_SizeNormalization ==
    sz.pc = "returned"
        => /\ sz.sizes = ClaimedSizes
           /\ (EuTyped = <<>> /\ DefaultSize = SizeUS9)
                 => (sz.sizes.size_eu = <<"9">> /\ sz.sizes.size_us = <<"9">>)
           /\ sz.sizes.size_eu # <<>>
           /\ sz.sizes.size_us # <<>>

\* C24: the EU size is the 'eu'-typed conversion if present, else the default
\* conversion, else "N/A"; the US size is the default conversion, else "N/A";
\* a leading "US " token is stripped from both; no 'eu' conversion and a
\* default of "US 9" give "9" for both; a size is empty only when the
\* conversion it is taken from is the "US" token followed by white space
\* alone.
C24_SizeNormalizationNonBlank ==
    sz.pc = "returned"
        => /\ sz.sizes = ClaimedSizes
           /\ (EuTyped = <<>> /\ DefaultSize = SizeUS9)
                 => (sz.sizes.size_eu = <<"9">> /\ sz.sizes.size_us = <<"9">>)
           /\ sz.sizes.size_eu = <<>>
                 => <<"U", "S", " ">> \in {EuTyped, DefaultSize}
           /\ sz.sizes.size_us = <<>> => DefaultSize = <<"U", "S", " ">>

C24_Witness ==
    /\ sz.pc = "returned"
    /\ EuTyped = <<>>
    /\ DefaultSize = SizeUS9
    /\ sz.sizes = [size_eu |-> <<"9">>, size_us |-> <<"9">>]

(***************************************************************************)
(* updateShopifyProduct: the reorder step on longer value lists            *)
(***************************************************************************)
\* The longest snapshot the reorder step is explored with.
MaxSorted == 3

\* The sizes of SizePool and "42.5".
ReorderSizes == SizePool \cup { <<"4", "2", ".", "5">> }

\* Priced snapshots of up to MaxSorted sizes in any order, and a storefront
\* product with one variant.
ReorderInit ==
    /\ snap \in { [product_info |-> [sku |-> ProductSku, title |-> "Dunk", brand |-> "Nike"],
                   variants |-> q] :
                    q \in {v \in BoundedSeqs([size_eu : ReorderSizes,
                                              price : {FormatAsk(120)}], MaxSorted) :
                              \A i, j \in 1..Len(v) : i # j => v[i].size_eu # v[j].size_eu} }
    /\ shop \in {Storefront(<<v>>) :
                    v \in [size : ReorderSizes \cup {NoSize}, price : {9990}]}
    /\ sy = SyncIdle
    /\ cat = NoCatalog
    /\ im = ImportIdle
    /\ tok = SignedIn
    /\ fx = FetchIdle
    /\ mk = MarkupIdle
    /\ sz = SizesIdle
    /\ rc = RaceIdle
    /\ ep = EndpointIdle
    /\ ld = LoaderIdle
    /\ au = AuthIdle

SpecReorder == ReorderInit /\ [][SyncNext]_vars

\* The values ascend by their numeric key.
Ascending(values) ==
    \A i, j \in 1..Len(values) : i < j => getNum(values[i]) <= getNum(values[j])

\* `sorted` holds the values of `values`, ascending by the numeric key, values
\* of equal key in the order they have in `values`.
IsStableAscendingSortOf(sorted, values) ==
    /\ Len(sorted) = Len(values)
    /\ Range(sorted) = Range(values)
    /\ Ascending(sorted)
    /\ \A i, j \in 1..Len(sorted) :
          (i < j /\ getNum(sorted[i]) = getNum(sorted[j]))
             => IndexOf(values, sorted[i]) < IndexOf(values, sorted[j])

\* The reorder mutations of the run, and whether the run read the live values.
Reorders == CallsOf(sy.calls, "productOptionsReorder")

ReadLiveValues == CallsOf(sy.calls, "getProductOptions") # {} /\ sy.pc = "done"

\* C25: a run of updateShopifyProduct that reaches the reorder step issues
\* productOptionsReorder if and only if the live 'Size (EU)' value list it
\* read is not in ascending order of the leading number (comma or dot as the
\* decimal separator); the list it submits is the stable ascending sort of
\* the live values (43, 40, 42.5 becomes 40, 42.5, 43); live values already
\* in order cause no reorder mutation.
C25_ReorderDeterminism ==
    /\ \A c \in Reorders :
          /\ IsStableAscendingSortOf(c.arg, sy.fresh)
          /\ c.arg # sy.fresh
    /\ ReadLiveValues
          => /\ Reorders # {} <=> ~Ascending(sy.fresh)
             /\ Cardinality(Reorders) <= 1
             /\ shop.optionValues # sy.fresh => shop.optionValues \in {c.arg : c \in Reorders}
    /\ \A c \in Reorders :
          /\ sy.fresh = << <<"4", "3">>, <<"4", "0">>, <<"4", "2", ".", "5">> >>
                => c.arg = << <<"4", "0">>, <<"4", "2", ".", "5">>, <<"4", "3">> >>
          /\ sy.fresh = << <<"4", "3">>, <<"4", "2", ",", "5">>, <<"4", "2", " ", "2", "/", "3">> >>
                => c.arg = << <<"4", "2", " ", "2", "/", "3">>, <<"4", "2", ",", "5">>, <<"4", "3">> >>

C25_Witness ==
    /\ sy.pc = "done"
    /\ sy.fresh = << <<"4", "3">>, <<"4", "0">>, <<"4", "2", ".", "5">> >>
    /\ Reorders = {Call("productOptionsReorder",
                        << <<"4", "0">>, <<"4", "2", ".", "5">>, <<"4", "3">> >>)}
    /\ shop.optionValues = << <<"4", "0">>, <<"4", "2", ".", "5">>, <<"4", "3">> >>

(***************************************************************************)
(* Claims about the variants an import leaves                              *)
(***************************************************************************)
\* The import returned success and none of its storefront calls failed.
CleanImport == im.pc = "done" /\ im.result.status = "success" /\ im.fails = {}

\* C26 (as stated): after a successful createShopifyProductFromData every
\* variant of the new product whose size is a desired size carries the
\* marked-up price of that size's ask, however many variants productCreate
\* itself materialized.
C26_ImportPricesEveryVariant ==
    CleanImport
        => \A v \in Range(shop.variants) :
              v.size \in DesiredSizes => v.price = DesiredPrice(v.size)

\* What holds: the bulk-created variants and the first variant productCreate
\* returned carry their target price.
C26_FirstInitialVariantPriced ==
    CleanImport
        => /\ \A v \in Range(im.newly) : v.price = DesiredPrice(v.size)
           /\ \A v \in Range(shop.variants) :
                 (v.size \in DesiredSizes /\ v.id # 1 /\ v.id > Len(im.created))
                    => v.price = DesiredPrice(v.size)
           /\ shop.variants[1].price = DesiredPrice(shop.variants[1].size)

\* The sizes of a create input.
InputSizes(input) == {input[i].size : i \in 1..Len(input)}

\* C27: the option values sent in productCreate are exactly the EU sizes of
\* the quotes that have an ask; the variants sent in
\* productVariantsBulkCreate are those sizes less the ones productCreate
\* materialized; no variant of a "No Ask" size ever exists; and the snapshot
\* (40: ask 120, 43: "No Ask") gives a product with exactly one variant, of
\* size 40 at the marked-up price of 120.
C27_NoAskNeverImported ==
    /\ \A c \in CallsOf(im.calls, "productCreate") :
          /\ Range(c.arg.values) = DesiredSizes
          /\ Len(c.arg.values) = Cardinality(DesiredSizes)
    /\ \A c \in CallsOf(im.calls, "productVariantsBulkCreate") :
          /\ InputSizes(c.arg) = DesiredSizes \ SizeSet(im.created)
          /\ Len(c.arg) = Cardinality(InputSizes(c.arg))
    /\ SizeSet(shop.variants) \cap NoAskSizes = {}
    /\ ( /\ CleanImport
         /\ snap.variants = << [size_eu |-> <<"4", "0">>, price |-> FormatAsk(120)],
                               [size_eu |-> <<"4", "3">>, price |-> NoAsk] >> )
          => /\ Len(shop.variants) = 1
             /\ shop.variants[1].size = <<"4", "0">>
             /\ shop.variants[1].price = 17490

C27_Witness ==
    /\ CleanImport
    /\ snap.variants = << [size_eu |-> <<"4", "0">>, price |-> FormatAsk(120)],
                          [size_eu |-> <<"4", "3">>, price |-> NoAsk] >>
    /\ \E c \in CallsOf(im.calls, "productCreate") : c.arg.values = << <<"4", "0">> >>
    /\ Len(shop.variants) = 1
    /\ shop.variants[1].price = 17490

(***************************************************************************)
(* The import of a product, or the update of an existing one               *)
(***************************************************************************)
\* "40", "42 2/3" and the blank size.
FlowSizes == { <<"4", "0">>, <<"4", "2", " ", "2", "/", "3">>, <<>> }

FlowsInit == SyncInitOf(FlowSizes)

\* createShopifyProductFromData is called for a product the storefront does
\* not hold, or updateShopifyProduct for the product it holds; every storefront
\* request may succeed, be answered with user errors or throw.
FlowsNext ==
    \/ (sy.pc = "idle" /\ shop = Storefront(<<>>) /\ ImportStart)
    \/ \E o \in {"ok", "throw"} : ImportDuplicateQuery(o)
    \/ \E o \in {"ok", "throw"} : ImportCollectionQuery(o)
    \/ \E o \in Outcomes : ImportCollectionCreate(o)
    \/ \E o \in Outcomes, n \in 1..MaxQuotes : ImportProductCreate(o, n)
    \/ \E o \in Outcomes : ImportBulkCreate(o)
    \/ \E o \in Outcomes : ImportPriceUpdate(o)
    \/ \E o \in Outcomes : ImportInventory(o)
    \/ \E o \in Outcomes : ImportFinish(o)
    \/ (im.pc = "idle" /\ SyncStart)
    \/ \E o \in {"ok", "throw"} : SyncFetchCurrent(o)
    \/ \E o \in Outcomes : SyncDelete(o)
    \/ \E o \in Outcomes : SyncCreate(o)
    \/ \E o \in Outcomes : SyncUpdate(o)
    \/ SyncInventoryIssue
    \/ \E id \in sy.pending, o \in Outcomes : SyncInventoryComplete(id, o)
    \/ \E o \in Outcomes : SyncOptionQuery(o)
    \/ \E o \in Outcomes : SyncReorder(o)

SpecFlows == FlowsInit /\ [][FlowsNext]_vars

\* productSku, '-', and the size without its white space.
VariantSku(size) ==
    snap.product_info.sku \o <<"-">> \o SelectSeq(size, LAMBDA c : c # " ")

\* The positions in `calls` of the inventoryItemUpdate requests for variant id.
InventoryUpdatesOf(calls, id) ==
    {k \in 1..Len(calls) :
        calls[k].op = "inventoryItemUpdate" /\ calls[k].arg.id = id}

\* After a flow that issued `calls`: every variant of a desired size (each has
\* an inventory item) got exactly one inventoryItemUpdate, with the SKU of its
\* size and tracked = true, and every inventoryItemUpdate is for such a
\* variant.
SkuAssigned(calls) ==
    /\ \A v \in Range(shop.variants) :
          (v.size \in DesiredSizes /\ v.inv)
             => /\ Cardinality(InventoryUpdatesOf(calls, v.id)) = 1
                /\ \A k \in InventoryUpdatesOf(calls, v.id) :
                      /\ calls[k].arg.sku = VariantSku(v.size)
                      /\ calls[k].arg.tracked
    /\ \A k \in 1..Len(calls) :
          calls[k].op = "inventoryItemUpdate"
             => \E v \in Range(shop.variants) :
                   v.id = calls[k].arg.id /\ v.size \in DesiredSizes

\* C28: when the import flow or the update flow has returned success, every
\* resulting variant whose size is a desired size got exactly one
\* inventoryItemUpdate with sku = productSku-size (white space removed from
\* the size) and tracked = true, and no inventoryItemUpdate was issued for a
\* variant of another size.
C28_InventorySkuAssignment ==
    /\ (im.pc = "done" /\ im.result.status = "success") => SkuAssigned(im.calls)
    /\ (sy.pc = "done" /\ sy.result.status = "success") => SkuAssigned(sy.calls)

\* The same for the import flow, and for the update flow of a product of at
\* most 200 variants.
C28_WithinOnePage ==
    /\ (im.pc = "done" /\ im.result.status = "success") => SkuAssigned(im.calls)
    /\ (sy.pc = "done" /\ sy.result.status = "success" /\ OnePage(sy.start))
          => SkuAssigned(sy.calls)

(***************************************************************************)
(* Claims about exhausted retries in fetchStockXData                       *)
(***************************************************************************)
\* C29: when the variant-listing request of a pass is answered with a
\* retryable status or fails with a transport exception on all 3 attempts,
\* fetchStockXData has sent no market-data request and returns a status-500
\* failure, not a snapshot.
C29_ListingExhaustionFatal ==
    fx.variantsRetryable >= VariantsAttempts
        => /\ fx.variantsRetryable = 3
           /\ fx.pc = "done"
           /\ fx.result = Failure(500, "Lookup Failed", FALSE)
           /\ ~fx.listed
           /\ fx.quotes = <<>>
           /\ MarketRequests(fx) = 0

C29_Witness ==
    /\ fx.pc = "done"
    /\ fx.variantsRetryable = 3
    /\ fx.variantsAttempt = 3
    /\ fx.result.status = 500
    /\ fx.retry

\* The price lookups that used up their attempts.
Exhausted == {i \in 1..Len(fx.tasks) : fx.tasks[i].end = "exhausted"}

\* C30 (as stated): when all 3 attempts of a variant's market-data lookup are
\* answered with a rate-limit or gateway-timeout status, the fetch does not
\* return that variant as an ordinary "No Ask" quote of a status-200
\* snapshot: the exhaustion reaches the caller as an error.
C30_ExhaustionSurfaced ==
    (fx.pc = "done" /\ Exhausted # {})
        => \/ fx.result.status # 200
           \/ \A i \in Exhausted : fx.quotes[i].price # NoAsk

\* What the code does: an exhausted lookup is returned like a variant without
\* an ask, in a status-200 snapshot, after exactly 3 requests.
C30_ExhaustionAbsorbed ==
    (fx.pc = "done" /\ Exhausted # {})
        => /\ fx.result.status = 200
           /\ \A i \in Exhausted :
                 /\ fx.quotes[i].price = NoAsk
                 /\ fx.tasks[i].reqs = maxRetries

\* C21 (as stated): when the token endpoint answers an authorization-code
\* grant with a non-OK response, exchangeCodeForToken returns success false
\* with the response body as the error, and the token file and the in-memory
\* tokens are as they were.
C21_FailedExchange ==
    (au.op = "exchange" /\ au.exchanged.answer = "non_ok")
        => /\ au.exchanged.settled = "returned"
           /\ ~au.exchanged.success
           /\ au.exchanged.error = au.exchanged.body
           /\ tok = au.before

\* The part that holds: a non-OK answer never changes the token store, and
\* one with a JSON body is returned as the error.
C21_FailedExchangeFrame ==
    (au.op = "exchange" /\ au.exchanged.answer = "non_ok")
        => /\ tok = au.before
           /\ ~au.wrote
           /\ au.exchanged.settled = "returned"
                 => (~au.exchanged.success /\ au.exchanged.error = au.exchanged.body)

(***************************************************************************)
(* Claims about the order and the plan of a reconciliation                 *)
(***************************************************************************)
\* The phase of a storefront request of updateShopifyProduct.
Phase(op) ==
    CASE op = "getProductVariants" -> 0
      [] op = "productVariantsBulkDelete" -> 1
      [] op = "productVariantsBulkCreate" -> 2
      [] op = "productVariantsBulkUpdate" -> 3
      [] op = "inventoryItemUpdate" -> 4
      [] op = "getProductOptions" -> 5
      [] op = "productOptionsReorder" -> 6

\* The positions in the run's request list of the requests named op.
Issued(op) == {k \in 1..Len(sy.calls) : sy.calls[k].op = op}

\* C31: the requests of a run are issued in the order delete, create, price
\* update, inventory updates, option query, reorder, each bulk mutation at
\* most once, a later phase never before an earlier one; and while an
\* inventoryItemUpdate is still in flight neither the option query nor the
\* reorder mutation has been issued.
C31_StrictMutationOrdering ==
    /\ \A i, j \in 1..Len(sy.calls) :
          i < j => Phase(sy.calls[i].op) <= Phase(sy.calls[j].op)
    /\ \A op \in {"productVariantsBulkDelete", "productVariantsBulkCreate",
                  "productVariantsBulkUpdate", "getProductOptions",
                  "productOptionsReorder"} : Cardinality(Issued(op)) <= 1
    /\ sy.pending # {}
          => Issued("getProductOptions") \cup Issued("productOptionsReorder") = {}
    /\ sy.pc \in {"delete", "create", "update", "inventory"}
          => Issued("inventoryItemUpdate") = {}

C31_Witness ==
    /\ sy.pc = "done"
    /\ Len(sy.calls) = 8
    /\ [k \in 1..8 |-> Phase(sy.calls[k].op)] = <<0, 1, 2, 3, 4, 4, 5, 6>>

\* E: the sizes of the variants the product had when the run began.
ExistingSizes == SizeSet(sy.start)

\* The ids a request list names: of a bulk delete, a bulk price update, and
\* the inventory updates.
DeletedIds == UNION {Range(sy.calls[k].arg) : k \in Issued("productVariantsBulkDelete")}

UpdatedIds ==
    UNION {{sy.calls[k].arg[i].id : i \in 1..Len(sy.calls[k].arg)} :
              k \in Issued("productVariantsBulkUpdate")}

InventoryIds == {sy.calls[k].arg.id : k \in Issued("inventoryItemUpdate")}

CreatedSizes ==
    UNION {InputSizes(sy.calls[k].arg) : k \in Issued("productVariantsBulkCreate")}

\* The plan of the claim for the existing variants `existing` with the sizes
\* E, read off the requests of a finished run.
Plan(existing, E) ==
    /\ CreatedSizes = DesiredSizes \ E
    /\ \A k \in Issued("productVariantsBulkCreate") :
          Len(sy.calls[k].arg) = Cardinality(InputSizes(sy.calls[k].arg))
    /\ DeletedIds = {v.id : v \in {x \in existing : x.size \in E \ DesiredSizes}}
    /\ UpdatedIds =
          {v.id : v \in {x \in Range(shop.variants) :
                            /\ x.size \in DesiredSizes
                            /\ x.id \in {e.id : e \in existing}
                                   \cup {n.id : n \in Range(sy.created)}}}
    /\ CreatedSizes \cap {v.size : v \in {x \in Range(sy.start) : x.id \in DeletedIds}} = {}
    /\ CreatedSizes \cap E = {}
    /\ DeletedIds \cap (UpdatedIds \cup InventoryIds) = {}

ImportIssued(op) == {k \in 1..Len(im.calls) : im.calls[k].op = op}

\* The collections of the catalog titled like the snapshot's brand.
BrandCollections ==
    {c \in Range(cat.collections) : c.title = snap.product_info.brand}

\* The collection lookup was answered, and found nothing.
LookupFoundNone ==
    /\ ImportIssued("collections") # {}
    /\ "collections" \notin FailedOps(im, AnyFailure)
    /\ im.existingCollection = "none"

\* C33: collectionCreate (the rule-based collection of the brand) is issued
\* exactly when the snapshot has a brand, no duplicate was found and the
\* collection lookup was answered without a match; collectionAddProducts is
\* issued only when the lookup found a collection without a rule set and only
\* after productCreate succeeded, and an import that returns success with
\* such a collection has issued it; the two are never both issued in one
\* import, and a rule-based collection gets no explicit add.
C33_BrandCollectionHandling ==
    /\ im.pc \notin {"idle", "duplicateQuery", "collectionQuery", "collectionCreate"}
          => ( ImportIssued("collectionCreate") # {}
                  <=> ( /\ ~BrandMissing(snap.product_info.brand)
                        /\ im.result.status # "warning"
                        /\ LookupFoundNone ) )
    /\ Cardinality(ImportIssued("collectionCreate")) <= 1
    /\ \A k \in ImportIssued("collectionCreate") :
          /\ im.calls[k].arg = snap.product_info.brand
          /\ "collectionCreate" \notin FailedOps(im, AnyFailure)
                => BrandCollections = {[title |-> snap.product_info.brand,
                                        ruleSet |-> TRUE, members |-> 0]}
    /\ \A k \in ImportIssued("collectionAddProducts") :
          /\ \E c \in BrandCollections : ~c.ruleSet
          /\ im.existingCollection = "manual"
          /\ \E j \in ImportIssued("productCreate") : j < k
          /\ "productCreate" \notin FailedOps(im, AnyFailure)
    /\ Cardinality(ImportIssued("collectionAddProducts")) <= 1
    /\ ( /\ im.pc = "done"
         /\ im.result.status = "success"
         /\ "collections" \notin FailedOps(im, AnyFailure)
         /\ \E c \in BrandCollections : ~c.ruleSet )
          => ImportIssued("collectionAddProducts") # {}
    /\ ImportIssued("collectionCreate") = {} \/ ImportIssued("collectionAddProducts") = {}
    /\ (\A c \in BrandCollections : c.ruleSet)
          => ImportIssued("collectionAddProducts") = {}

C33_Witness ==
    /\ im.pc = "done"
    /\ im.result.status = "success"
    /\ im.existingCollection = "manual"
    /\ ImportIssued("collectionAddProducts") # {}
    /\ ImportIssued("collectionCreate") = {}
    /\ \E c \in BrandCollections : ~c.ruleSet /\ c.members = 1


(***************************************************************************)
(* fetchStockXData (stockx.server.js): calls that share the token store    *)
(***************************************************************************)
\* The number of calls that run side by side.
MaxCalls == 2

Calls == 1..MaxCalls

\* The answers that matter to the token handling: a 401, or an OK answer (a
\* search with a hit, a listing without variants).
RaceResponses == {"401", "ok"}

BearerToken_PassStart(t, call) == call.tok0

\* `Bearer ${accessToken}`: the module's variable is read when the request is
\* built, at each of the request sites.
BearerToken(t, call) == t.accessToken

\* Every call is past the token gate of a store that holds an access token and
\* is about to send its first search; tok0 is the access token cached when the
\* pass of the call began, step the request a refresh was called for.
RaceInit ==
    /\ snap = [product_info |-> [sku |-> ProductSku, title |-> "Dunk", brand |-> "Nike"],
               variants |-> <<>>]
    /\ shop = Storefront(<<>>)
    /\ cat = NoCatalog
    /\ sy = SyncIdle
    /\ im = ImportIdle
    /\ fx = FetchIdle
    /\ au = AuthIdle
    /\ mk = MarkupIdle
    /\ sz = SizesIdle
    /\ ep = EndpointIdle
    /\ ld = LoaderIdle
    /\ tok \in {s \in TokenStores : s.accessToken # 0}
    /\ rc = [calls |-> [p \in Calls |->
                           [pc |-> "search", awaiting |-> FALSE, retry |-> FALSE,
                            searchAttempt |-> 0, variantsAttempt |-> 0,
                            step |-> "-", tok0 |-> tok.accessToken, grant |-> 0,
                            sent |-> [token |-> 0, cached |-> 0],
                            result |-> [status |-> 0, error |-> "", action |-> FALSE]]],
             issued |-> 1,
             saved |-> <<>>]

\* Lines 150-156 and 219-221: call p builds and sends its search or its
\* listing request.
RaceSend(p) ==
    /\ rc.calls # <<>>
    /\ rc.calls[p].pc \in {"search", "variants"}
    /\ ~rc.calls[p].awaiting
    /\ rc' = [rc EXCEPT !.calls[p].awaiting = TRUE,
                        !.calls[p].sent = [token |-> BearerToken(tok, rc.calls[p]),
                                           cached |-> tok.accessToken]]
    /\ UNCHANGED <<ep, ld, snap, shop, cat, sy, im, tok, fx, au, mk, sz>>

\* The attempt of the loop the call is in has failed.
RaceFailedAttempt(call) ==
    IF call.pc = "search" THEN SearchFailedAttempt(call) ELSE VariantsFailedAttempt(call)

\* Lines 158-199 and 223-253: the request of call p is answered. A 401 on the
\* first pass calls refreshAccessToken, which loads the token and posts the
\* refresh token it holds (the endpoint numbers the token it will hand out) or
\* returns false at once without one; false ends a search with the 401 result
\* and makes a listing a failed attempt. A 401 on the retry pass is a failed
\* attempt as well.
RaceAnswer(p, resp) ==
    /\ rc.calls # <<>>
    /\ rc.calls[p].pc \in {"search", "variants"}
    /\ rc.calls[p].awaiting
    /\ LET call == [rc.calls[p] EXCEPT !.awaiting = FALSE]
           loaded == LoadToken(tok)
       IN  IF resp = "401" /\ ~call.retry
           THEN /\ tok' = loaded
                /\ rc' = IF loaded.refreshToken # 0
                         THEN [rc EXCEPT !.calls[p] =
                                  [call EXCEPT !.step = call.pc, !.pc = "refreshing",
                                               !.grant = rc.issued + 1],
                                !.issued = rc.issued + 1]
                         ELSE IF call.pc = "search"
                         THEN [rc EXCEPT !.calls[p] =
                                  [call EXCEPT !.pc = "done",
                                      !.result = Failure(401,
                                          "Token Expired and Refresh Failed", TRUE)]]
                         ELSE [rc EXCEPT !.calls[p] = RaceFailedAttempt(call)]
           ELSE /\ tok' = tok
                /\ rc' = IF resp = "401"
                         THEN [rc EXCEPT !.calls[p] = RaceFailedAttempt(call)]
                         ELSE IF call.pc = "search"
                         THEN [rc EXCEPT !.calls[p] = [call EXCEPT !.pc = "variants"]]
                         ELSE [rc EXCEPT !.calls[p] =
                                  [call EXCEPT !.pc = "done",
                                               !.result = Failure(200, "", FALSE)]]
    /\ UNCHANGED <<ep, ld, snap, shop, cat, sy, im, fx, au, mk, sz>>

\* Lines 98-110, 161-169 and 225-229: the refresh of call p is answered; an OK
\* answer is saved and the call starts over with makeRequest(true). Any other
\* answer ends a call that was searching with the 401 result; in the listing
\* loop it falls through to a failed attempt.
RaceRefreshAnswer(p, outcome, writeOk) ==
    /\ rc.calls # <<>>
    /\ rc.calls[p].pc = "refreshing"
    /\ LET call == rc.calls[p]
           after == AfterRefresh(tok, outcome, call.grant, writeOk)
       IN  /\ tok' = after
           /\ rc' = [rc EXCEPT
                !.calls[p] =
                    IF Refreshed(outcome)
                    THEN [call EXCEPT !.pc = "search", !.retry = TRUE,
                                      !.searchAttempt = 0, !.variantsAttempt = 0,
                                      !.tok0 = after.accessToken]
                    ELSE IF call.step = "search"
                    THEN [call EXCEPT !.pc = "done",
                             !.result = Failure(401, "Token Expired and Refresh Failed",
                                                TRUE)]
                    ELSE RaceFailedAttempt([call EXCEPT !.pc = "variants"]),
                !.saved = IF Refreshed(outcome) /\ writeOk
                          THEN Append(rc.saved, call.grant) ELSE rc.saved]
    /\ UNCHANGED <<ep, ld, snap, shop, cat, sy, im, fx, au, mk, sz>>

RaceNext ==
    \/ \E p \in Calls : RaceSend(p)
    \/ \E p \in Calls, resp \in RaceResponses : RaceAnswer(p, resp)
    \/ \E p \in Calls, outcome \in RefreshOutcomes, writeOk \in BOOLEAN :
          RaceRefreshAnswer(p, outcome, writeOk)

SpecRace == RaceInit /\ [][RaceNext]_vars

\* Every call has returned.
AllReturned == \A p \in Calls : rc.calls[p].pc = "done"

\* C34: however the requests and the refreshes of the calls interleave, the
\* access token in memory is the one in the token file at every moment, it is
\* the token of the refresh answer that was saved last once an answer has been
\* saved (so also after all calls have returned), and every request is sent
\* with the access token cached at the moment it is sent.
C34_RefreshRaceBenign ==
    /\ tok.accessToken = tok.file.access_token
    /\ rc.saved # <<>> => tok.accessToken = rc.saved[Len(rc.saved)]
    /\ \A p \in Calls : rc.calls[p].sent.token = rc.calls[p].sent.cached

\* Both calls refreshed after a 401 and returned, and the answer that was
\* handed out first was saved last.
C34_Witness ==
    /\ AllReturned
    /\ \A p \in Calls : rc.calls[p].retry /\ rc.calls[p].result.status = 200
    /\ rc.saved = <<3, 2>>
    /\ tok.accessToken = 2


(***************************************************************************)
(* fetchStockXData: termination                                            *)
(***************************************************************************)
\* Every request that is awaited is answered at some time: with an answer
\* outstanding, one of the actions that deliver it is taken.
SpecFetchLive == FetchInit /\ [][FetchNext]_vars /\ WF_vars(FetchNext)

\* makeRequest has been entered at most twice, and the pass in progress has
\* sent at most 3 search requests, 3 listing requests and 3 market requests
\* for each variant.
PassBounds ==
    /\ fx.passes <= 2
    /\ fx.passSearch <= 3
    /\ fx.passVariants <= 3
    /\ \A i \in 1..Len(fx.tasks) : fx.tasks[i].reqs <= 3

\* C35: with every request answered, every call of fetchStockXData ends with
\* a result, and at every moment makeRequest has been entered at most twice
\* and the pass in progress has sent at most 3 search, 3 listing and 3 market
\* requests per variant.
C35_TerminatesWithResult == [](PassBounds) /\ <>(fx.pc = "done")

\* Every call settles within these bounds: it returns a result, or rejects a
\* blank SKU at once.
FetchSettles == [](PassBounds) /\ <>(fx.pc \in {"done", "rejected"})


(***************************************************************************)
(* Claims about what a flow leaves alone                                   *)
(***************************************************************************)
\* Every quote of the snapshot is "No Ask"; a snapshot without variants
\* included.
AllNoAsk(data) == \A i \in 1..Len(data.variants) : data.variants[i].price = NoAsk

\* The step in which updateShopifyProduct is called with such a snapshot.
UpdateCalledWithoutPrices == AllNoAsk(snap) /\ sy.pc = "idle" /\ sy'.pc # "idle"

\* The step in which createShopifyProductFromData is called with one.
ImportCalledWithoutPrices == AllNoAsk(snap) /\ im.pc = "idle" /\ im'.pc # "idle"

\* C36: called with a snapshot whose quotes are all "No Ask" (or that has no
\* variants), updateShopifyProduct returns status "warning" in that very step
\* without any storefront query or mutation, leaving the product's variants,
\* prices, SKUs, option order and the catalog as they were; the import called
\* with such a snapshot returns status "error" before any storefront call.
C36_NoPricedNoEffect ==
    /\ [][ UpdateCalledWithoutPrices
              => /\ sy'.pc = "done"
                 /\ sy'.result.status = "warning"
                 /\ sy'.calls = <<>>
                 /\ UNCHANGED <<shop, cat>> ]_vars
    /\ [][ ImportCalledWithoutPrices
              => /\ im'.pc = "done"
                 /\ im'.result.status = "error"
                 /\ im'.calls = <<>>
                 /\ UNCHANGED <<shop, cat>> ]_vars
    /\ []((sy.pc = "done" /\ sy.result.status = "warning")
             => (sy.calls = <<>> /\ shop.variants = sy.start))

\* A product with variants was synced with a snapshot of "No Ask" quotes only.
C36_Witness ==
    /\ sy.pc = "done"
    /\ sy.result.status = "warning"
    /\ snap.variants # <<>>
    /\ AllNoAsk(snap)
    /\ shop.variants # <<>>
    /\ sy.calls = <<>>


\* The variants the product had without a "Size (EU)" option when the run began.
Unsized == {v \in Range(sy.start) : v.size = NoSize}

UnsizedIds == {v.id : v \in Unsized}

\* C37: whatever the snapshot holds and however the requests end, no variant
\* without a selected option named "Size (EU)" appears in the bulk delete, in
\* the bulk price update or in an inventory update of updateShopifyProduct,
\* and the product keeps each of them as it was.
C37_UnsizedUntouched ==
    /\ DeletedIds \cap UnsizedIds = {}
    /\ UpdatedIds \cap UnsizedIds = {}
    /\ InventoryIds \cap UnsizedIds = {}
    /\ sy.pc # "idle" => Unsized \subseteq Range(shop.variants)

\* A finished run that deleted, repriced and re-labelled sized variants of a
\* product that also has a variant outside the size axis.
C37_Witness ==
    /\ sy.pc = "done"
    /\ Unsized # {}
    /\ \E i \in 1..Len(sy.vfs) : sy.vfs[i].size = <<>>
    /\ DeletedIds # {}
    /\ UpdatedIds # {}
    /\ InventoryIds # {}


(***************************************************************************)
(* The action of app.update_prices.jsx                                     *)
(***************************************************************************)
\* The longest product list the bulk update is explored with.
MaxProducts == 3

\* const limit = 1
BulkLimit == 1

\* The largest number of products with a SKU in a list.
MaxWithSku == 2

\* The products of the form data: SKUs that are empty, blank or "FV-1".
ProductLists ==
    { ps \in BoundedSeqs({<<>>, <<" ", " ">>, ProductSku}, MaxProducts) :
        Cardinality({j \in 1..Len(ps) : ps[j] # <<>>}) <= MaxWithSku }

\* stockxResult.error || "StockX Fetch Failed"
FetchErrorMessage(result) ==
    IF result.error = "" THEN "StockX Fetch Failed" ELSE result.error

\* The products of the storefront when the action is called: a variant of
\* size 42 at a stale price, a variant of size 43, or a single variant without
\* "Size (EU)" option.
EndpointProducts ==
    { Storefront(<<[size |-> Size42, price |-> 9990]>>),
      Storefront(<<[size |-> <<"4", "3">>, price |-> 9990]>>),
      Storefront(<<[size |-> NoSize, price |-> 9990]>>) }

\* A token file that holds a refresh token and no access token.
RefreshOnly ==
    [NoTokens EXCEPT !.file = [state |-> "ok", access_token |-> 0, refresh_token |-> 1]]

\* The token store when the action is called: no tokens at all, a token file
\* with the refresh token alone that the module has not read yet, or both
\* tokens loaded.
EndpointStores == {NoTokens, RefreshOnly, SignedIn}

\* stockx.server.js 359-370: the data of a result with status 200: the quotes
\* of the listing under the title and brand of the first hit and under its
\* styleId, else its sku, else the SKU that was searched for.
FetchedData(f) ==
    [product_info |->
        [sku |-> IF f.hit.styleId # <<>> THEN f.hit.styleId
                 ELSE IF f.hit.sku # <<>> THEN f.hit.sku
                 ELSE f.sku,
         title |-> f.hit.title, brand |-> f.hit.brand],
     variants |-> f.quotes]

\* updateResult.message (shopify.sync.js 43 and 323)
ReconcileMessage(result) ==
    IF result.status = "warning" THEN "No valid prices found to update."
    ELSE "Updated " \o ToString(result.count) \o " variants."

SingleAnswer_PassesStatus(outcome, result) ==
    IF outcome = "throw" THEN [status |-> "error", message |-> "exception"]
    ELSE [status |-> outcome, message |-> ReconcileMessage(result)]

\* Lines 86-91: the answer of update_single once the reconciliation settled.
SingleAnswer(outcome, result) ==
    IF outcome = "throw" THEN [status |-> "error", message |-> "exception"]
    ELSE [status |-> "success", message |-> ReconcileMessage(result)]

\* How awaiting updateShopifyProduct settled: the run threw, or it returned
\* its status.
Reconciled(s) == IF s.pc = "thrown" THEN "throw" ELSE s.result.status

\* Lines 73-80: update_single is called; a missing or empty SKU is answered
\* at once, otherwise fetchStockXData is called and awaited. shops keeps the
\* product as the request finds it.
UpdateSingleStart(sku) ==
    /\ ep.pc = "idle"
    /\ IF sku = <<>>
       THEN /\ ep' = [ep EXCEPT !.intent = "update_single", !.pc = "done",
                         !.result = [status |-> "error",
                                     message |-> "Product has no SKU to search."]]
            /\ UNCHANGED <<tok, fx>>
       ELSE /\ ep' = [ep EXCEPT !.intent = "update_single", !.pc = "fetch",
                         !.sku = sku, !.shops = <<shop>>]
            /\ FetchCall(sku)
    /\ UNCHANGED <<ld, rc, sz, mk, au, snap, shop, cat, sy, im>>

\* Lines 80-85 and 88-91: the awaited fetch has settled. A rejection goes to
\* the catch, a result other than 200 is answered as an error, and with a 200
\* updateShopifyProduct is called with the data, up to its first request.
UpdateSingleFetch ==
    /\ ep.intent = "update_single"
    /\ ep.pc = "fetch"
    /\ fx.pc \in {"done", "rejected"}
    /\ fx' = [FetchIdle EXCEPT !.issued = fx.issued]
    /\ IF fx.pc = "done" /\ fx.result.status = 200
       THEN /\ snap' = FetchedData(fx)
            /\ sy' = SyncBegun(SyncIdle, FetchedData(fx), shop)
            /\ ep' = [ep EXCEPT !.pc = "reconcile", !.fetched = <<fx.result>>]
       ELSE /\ ep' = [ep EXCEPT !.pc = "done", !.fetched = <<fx.result>>,
                         !.result = [status |-> "error",
                                     message |-> IF fx.pc = "rejected"
                                                 THEN fx.result.error
                                                 ELSE FetchErrorMessage(fx.result)]]
            /\ UNCHANGED <<snap, sy>>
    /\ UNCHANGED <<ld, rc, sz, mk, au, shop, cat, im, tok>>

\* Lines 85-91: the awaited updateShopifyProduct has returned or thrown.
UpdateSingleReconcile ==
    /\ ep.intent = "update_single"
    /\ ep.pc = "reconcile"
    /\ sy.pc \in {"done", "thrown"}
    /\ ep' = [ep EXCEPT !.pc = "done", !.reconciled = Reconciled(sy),
                        !.updateResult = IF sy.pc = "thrown" THEN @ ELSE sy.result,
                        !.result = SingleAnswer(Reconciled(sy), sy.result)]
    /\ UNCHANGED <<ld, rc, sz, mk, au, snap, shop, cat, sy, im, tok, fx>>

ChunkOf_Pairs(products, i) == {j \in 1..Len(products) : i < j /\ j <= i + 2}

\* allProducts.slice(i, i + limit), as the positions in the list
ChunkOf(products, i) == {j \in 1..Len(products) : i < j /\ j <= i + BulkLimit}

\* The positions of a set in list order.
RECURSIVE InListOrder(_)
InListOrder(S) ==
    IF S = {} THEN <<>>
    ELSE LET first == CHOOSE x \in S : \A y \in S : x <= y
         IN  <<first>> \o InListOrder(S \ {first})

\* Lines 105-126: the loop at offset i. Past the end of the list the action
\* returns; otherwise the tasks of the chunk start: one for a product without
\* SKU returns at once, the others await their jitter timer.
StartChunk(e, i) ==
    IF i >= Len(e.products)
    THEN [e EXCEPT !.pc = "done", !.i = i,
             !.result = [status |-> "success", message |-> "Updated. Failed."]]
    ELSE LET chunk == ChunkOf(e.products, i)
             started == {j \in chunk : e.products[j] # <<>>}
         IN  [e EXCEPT !.pc = "join", !.i = i,
                  !.stage = [j \in 1..Len(e.products) |->
                                IF j \in started THEN "wait"
                                ELSE IF j \in chunk THEN "done" ELSE e.stage[j]],
                  !.order = @ \o InListOrder(started)]

\* Lines 94-105: update_all is called with the product list of the form; each
\* product of the list is a product of its own on the storefront.
UpdateAllStart ==
    /\ ep.pc = "idle"
    /\ ep' = StartChunk([ep EXCEPT !.intent = "update_all",
                            !.shops = [j \in 1..Len(ep.products) |-> shop],
                            !.stage = [j \in 1..Len(ep.products) |-> "idle"]], 0)
    /\ UNCHANGED <<ld, rc, sz, mk, au, snap, shop, cat, sy, im, tok, fx>>

\* Lines 112-113: the jitter timer of task j fires and the task calls
\* fetchStockXData.
UpdateAllTimer(j) ==
    /\ ep.intent = "update_all"
    /\ ep.pc = "join"
    /\ j \in 1..Len(ep.products)
    /\ ep.stage[j] = "wait"
    /\ ep' = [ep EXCEPT !.stage[j] = "fetch"]
    /\ FetchCall(ep.products[j])
    /\ UNCHANGED <<ld, rc, sz, mk, au, snap, shop, cat, sy, im>>

\* Lines 113-123: the awaited fetch of task j has settled. A rejection and a
\* result other than 200 count as a failure; with a 200 updateShopifyProduct
\* is called for product j with the data, up to its first request.
UpdateAllFetch(j) ==
    /\ ep.intent = "update_all"
    /\ ep.pc = "join"
    /\ j \in 1..Len(ep.products)
    /\ ep.stage[j] = "fetch"
    /\ fx.pc \in {"done", "rejected"}
    /\ fx' = [FetchIdle EXCEPT !.issued = fx.issued]
    /\ IF fx.pc = "done" /\ fx.result.status = 200
       THEN /\ snap' = FetchedData(fx)
            /\ shop' = ep.shops[j]
            /\ sy' = SyncBegun(SyncIdle, FetchedData(fx), ep.shops[j])
            /\ ep' = [ep EXCEPT !.stage[j] = "reconcile"]
       ELSE /\ ep' = [ep EXCEPT !.stage[j] = "done", !.failCount = @ + 1]
            /\ UNCHANGED <<snap, shop, sy>>
    /\ UNCHANGED <<ld, rc, sz, mk, au, cat, im, tok>>

\* The inventory updates of a run that are still in flight, for product j.
StillInFlight(s, j) ==
    {[product |-> j, id |-> m.id, sku |-> m.source.sku] :
        m \in {x \in Range(s.matched) : x.id \in s.pending}}

\* Lines 115-123: the awaited updateShopifyProduct of task j has returned
\* (success is counted) or thrown (the catch counts a failure); product j is
\* as the run left it, the inventory updates of a run that threw are still
\* in flight, and the locals of the run are gone.
UpdateAllReconcile(j) ==
    /\ ep.intent = "update_all"
    /\ ep.pc = "join"
    /\ j \in 1..Len(ep.products)
    /\ ep.stage[j] = "reconcile"
    /\ sy.pc \in {"done", "thrown"}
    /\ ep' = IF sy.pc = "thrown"
             THEN [ep EXCEPT !.stage[j] = "done", !.failCount = @ + 1,
                      !.shops[j] = shop, !.late = @ \cup StillInFlight(sy, j)]
             ELSE [ep EXCEPT !.stage[j] = "done", !.successCount = @ + 1,
                      !.shops[j] = shop]
    /\ sy' = SyncIdle
    /\ UNCHANGED <<ld, rc, sz, mk, au, snap, shop, cat, im, tok, fx>>

\* shopify.sync.js 216-235: an inventory update of a run that threw is
\* answered after its task has ended.
UpdateAllLateAnswer(l, outcome) ==
    /\ ep.intent = "update_all"
    /\ l \in ep.late
    /\ ep' = [ep EXCEPT !.late = @ \ {l},
                        !.shops[l.product] =
                            IF outcome = "ok" THEN ShopSetSku(@, l.id, l.sku) ELSE @]
    /\ UNCHANGED <<ld, rc, sz, mk, au, snap, shop, cat, sy, im, tok, fx>>

\* Line 125: Promise.all of the chunk resolves and the loop goes on.
UpdateAllJoin ==
    /\ ep.intent = "update_all"
    /\ ep.pc = "join"
    /\ \A j \in ChunkOf(ep.products, ep.i) : ep.stage[j] = "done"
    /\ ep' = StartChunk(ep, ep.i + BulkLimit)
    /\ UNCHANGED <<ld, rc, sz, mk, au, snap, shop, cat, sy, im, tok, fx>>

EndpointInit ==
    /\ snap = [product_info |-> [sku |-> ProductSku, title |-> "Dunk", brand |-> "Nike"],
               variants |-> <<>>]
    /\ shop \in EndpointProducts
    /\ cat = NoCatalog
    /\ sy = SyncIdle
    /\ im = ImportIdle
    /\ tok \in EndpointStores
    /\ fx = FetchIdle
    /\ au = AuthIdle
    /\ mk = MarkupIdle
    /\ sz = SizesIdle
    /\ rc = RaceIdle
    /\ ld = LoaderIdle

\* update_single for a missing, a blank and a padded SKU: every answer to the
\* requests of the fetch, every kind of first hit, and every answer to the
\* requests of the reconciliation.
UpdateSingleNext ==
    \/ \E sku \in SkuInputs \ {ProductSku} : UpdateSingleStart(sku)
    \/ \E o \in RefreshOutcomes, w \in BOOLEAN : FetchGateRefresh(o, w)
    \/ \E r \in SearchResponses, h \in Hits : FetchSearch(r, h)
    \/ \E o \in RefreshOutcomes, w \in BOOLEAN : FetchSearchRefresh(o, w)
    \/ \E r \in VariantsResponses, n \in 0..MaxVariants : FetchVariants(r, n)
    \/ \E o \in RefreshOutcomes, w \in BOOLEAN : FetchVariantsRefresh(o, w)
    \/ \E i \in 1..MaxVariants, r \in {"error", "ok_ask", "ok_noask"} :
          FetchMarket(i, r, 120)
    \/ FetchBatchJoin
    \/ UpdateSingleFetch
    \/ \E o \in {"ok", "throw"} : SyncFetchCurrent(o)
    \/ \E o \in Outcomes : SyncDelete(o)
    \/ \E o \in Outcomes : SyncCreate(o)
    \/ \E o \in Outcomes : SyncUpdate(o)
    \/ SyncInventoryIssue
    \/ \E id \in sy.pending, o \in Outcomes : SyncInventoryComplete(id, o)
    \/ \E o \in Outcomes : SyncOptionQuery(o)
    \/ \E o \in Outcomes : SyncReorder(o)
    \/ UpdateSingleReconcile

UpdateSingleInit ==
    /\ EndpointInit
    /\ ep = EndpointIdle

SpecUpdateSingle == UpdateSingleInit /\ [][UpdateSingleNext]_vars

\* update_all: the refresh of the auth gate is granted or refused, the search
\* of a fetch is answered at the first attempt (its first hit carrying a
\* styleId) or with a 401, the requests of a reconciliation in every way.
UpdateAllNext ==
    \/ UpdateAllStart
    \/ \E j \in 1..MaxProducts : UpdateAllTimer(j)
    \/ \E o \in {"ok", "rejected"} : FetchGateRefresh(o, TRUE)
    \/ \E r \in {"401", "ok_hits", "ok_empty"}, h \in {x \in Hits : x.styleId # <<>>} :
          FetchSearch(r, h)
    \/ \E o \in {"ok", "rejected"}, w \in BOOLEAN : FetchSearchRefresh(o, w)
    \/ \E r \in {"ok_list", "ok_notarray"}, n \in 0..MaxVariants :
          FetchVariants(r, n)
    \/ \E i \in 1..MaxVariants, r \in {"ok_ask", "ok_noask"} : FetchMarket(i, r, 120)
    \/ FetchBatchJoin
    \/ \E j \in 1..MaxProducts : UpdateAllFetch(j)
    \/ \E o \in {"ok", "throw"} : SyncFetchCurrent(o)
    \/ \E o \in Outcomes : SyncDelete(o)
    \/ \E o \in Outcomes : SyncCreate(o)
    \/ \E o \in Outcomes : SyncUpdate(o)
    \/ SyncInventoryIssue
    \/ \E id \in sy.pending, o \in Outcomes : SyncInventoryComplete(id, o)
    \/ \E o \in Outcomes : SyncOptionQuery(o)
    \/ \E o \in Outcomes : SyncReorder(o)
    \/ \E j \in 1..MaxProducts : UpdateAllReconcile(j)
    \/ \E l \in ep.late, o \in Outcomes : UpdateAllLateAnswer(l, o)
    \/ UpdateAllJoin

\* The form's list of products; the token file holds the refresh token alone,
\* so the first fetch that gets its refresh granted signs the module in.
UpdateAllInit ==
    /\ EndpointInit
    /\ tok = RefreshOnly
    /\ \E ps \in ProductLists : ep = [EndpointIdle EXCEPT !.products = ps]

SpecUpdateAll == UpdateAllInit /\ [][UpdateAllNext]_vars

\* The fetch of update_single returned a result with status 200.
Fetched200 == ep.fetched # <<>> /\ ep.fetched[1].status = 200

\* C38: update_single answers status "error" exactly when the SKU is missing,
\* the fetch result is not a 200, or the fetch or the reconciliation threw; in
\* every other case it answers status "success" with the message of the
\* reconciliation, also when that returned the "warning" result and left the
\* product as it was.
C38_SingleSyncStatus ==
    (ep.intent = "update_single" /\ ep.pc = "done")
        => /\ ep.result.status \in {"error", "success"}
           /\ ep.result.status = "error"
                 <=> \/ ep.sku = <<>>
                     \/ ~Fetched200
                     \/ ep.reconciled = "throw"
           /\ ep.result.status = "success"
                 => /\ ep.reconciled \in {"success", "warning"}
                    /\ ep.updateResult.status = ep.reconciled
                    /\ ep.result.message = ReconcileMessage(ep.updateResult)
                    /\ ep.reconciled = "warning" => shop = ep.shops[1]

\* The reconciliation returned its warning and the action answered success.
C38_Witness ==
    /\ ep.intent = "update_single"
    /\ ep.pc = "done"
    /\ Fetched200
    /\ ep.reconciled = "warning"
    /\ shop = ep.shops[1]
    /\ ep.result = [status |-> "success", message |-> "No valid prices found to update."]

\* The positions of the products that carry a SKU, and those in progress.
WithSku == {j \in 1..Len(ep.products) : ep.products[j] # <<>>}

InProgress ==
    {j \in 1..Len(ep.stage) : ep.stage[j] \in {"wait", "fetch", "reconcile"}}

\* C39: update_all has at most one product's fetch or reconciliation in
\* progress at any moment and takes the products up in list order; when it
\* returns, every product with a SKU has been processed, whatever happened to
\* the ones before it, the products without SKU were not counted, and
\* successCount + failCount is the number of products with a SKU.
C39_BulkAccounting ==
    ep.intent = "update_all"
        => /\ Cardinality(InProgress) <= 1
           /\ \A a, b \in 1..Len(ep.order) : a < b => ep.order[a] < ep.order[b]
           /\ Range(ep.order) \subseteq WithSku
           /\ ep.successCount + ep.failCount
                 = Cardinality({j \in Range(ep.order) : ep.stage[j] = "done"})
           /\ ep.pc = "done"
                 => /\ Range(ep.order) = WithSku
                    /\ ep.successCount + ep.failCount = Cardinality(WithSku)
                    /\ ep.result.status = "success"

\* Three products: the first without SKU, one of the others failed and one
\* was synced.
C39_Witness ==
    /\ ep.intent = "update_all"
    /\ ep.pc = "done"
    /\ Len(ep.products) = 3
    /\ ep.products[1] = <<>>
    /\ ep.order = <<2, 3>>
    /\ ep.failCount = 1
    /\ ep.successCount = 1


(***************************************************************************)
(* The product loader of app.update_prices.jsx                             *)
(***************************************************************************)
\* The longest product SKU the loader is explored with.
MaxSkuLen == 3

\* Product SKUs over 'F', '1' and '-': with no, one or several hyphens, at
\* either end or in the middle.
SkuPool == BoundedSeqs({"F", "1", "-"}, MaxSkuLen)

\* "", " ", "42", "42 2/3" and "4-5"
LoaderSizes ==
    { <<>>, <<" ">>, <<"4", "2">>, <<"4", "2", " ", "2", "/", "3">>, <<"4", "-", "5">> }

\* `${sku}-${size_eu.replace(/\s/g, "")}`
InventorySku(sku, size) == sku \o <<"-">> \o StripWhitespace(size)

\* The positions of the hyphens of s.
Hyphens(s) == {k \in 1..Len(s) : s[k] = "-"}

StripLastSegment_FromFirstHyphen(s) ==
    IF Hyphens(s) = {} THEN s
    ELSE SubSeq(s, 1, (CHOOSE k \in Hyphens(s) : \A j \in Hyphens(s) : k <= j) - 1)

\* s.replace(/-[^-]+$/, ""): the match starts at a hyphen that is followed by
\* one or more characters, none a hyphen, up to the end of s.
StripLastSegment(s) ==
    IF Hyphens(s) = {} THEN s
    ELSE LET last == CHOOSE k \in Hyphens(s) : \A j \in Hyphens(s) : j <= k
         IN  IF last < Len(s) THEN SubSeq(s, 1, last - 1) ELSE s

\* initialVariant?.nodes[0]?.sku?.replace(/-[^-]+$/, "") || ""  (<<>> stands
\* for a missing SKU and for "")
LoaderSku(inventorySku) == StripLastSegment(inventorySku)

\* A product whose first variant carries the inventory SKU a sync wrote for
\* product SKU `sku` and size `size`.
LoaderInit ==
    /\ snap = [product_info |-> [sku |-> ProductSku, title |-> "Dunk", brand |-> "Nike"],
               variants |-> <<>>]
    /\ shop = Storefront(<<>>)
    /\ cat = NoCatalog
    /\ sy = SyncIdle
    /\ im = ImportIdle
    /\ tok = NoTokens
    /\ fx = FetchIdle
    /\ au = AuthIdle
    /\ mk = MarkupIdle
    /\ sz = SizesIdle
    /\ rc = RaceIdle
    /\ ep = EndpointIdle
    /\ \E sku \in SkuPool, size \in LoaderSizes :
          ld = [LoaderIdle EXCEPT !.pc = "synced", !.sku = sku, !.size = size,
                                  !.inventory = InventorySku(sku, size)]

\* The loader maps the product to the SKU its next sync searches for.
LoaderRead ==
    /\ ld.pc = "synced"
    /\ ld' = [ld EXCEPT !.pc = "loaded", !.loaded = LoaderSku(ld.inventory)]
    /\ UNCHANGED <<ep, rc, sz, mk, au, snap, shop, cat, sy, im, tok, fx>>

LoaderNext == LoaderRead

SpecLoader == LoaderInit /\ [][LoaderNext]_vars

\* The size has no hyphen once its whitespace is removed.
HyphenFree(size) == Hyphens(StripWhitespace(size)) = {}

\* C40 (as stated): for every product SKU and every size without a hyphen
\* after whitespace removal, the loader reads the product SKU back from the
\* inventory SKU.
C40_SkuRoundTrip ==
    (ld.pc = "loaded" /\ HyphenFree(ld.size)) => ld.loaded = ld.sku

\* C40: for every product SKU, with or without hyphens, and every size that
\* after whitespace removal is not empty and has no hyphen, the loader reads
\* the product SKU back from the inventory SKU sku + "-" + size.
C40_SkuRoundTripNonBlank ==
    (ld.pc = "loaded" /\ HyphenFree(ld.size) /\ StripWhitespace(ld.size) # <<>>)
        => ld.loaded = ld.sku

\* "F-1" with size "42 2/3" is read back from "F-1-422/3".
C40_Witness ==
    /\ ld.pc = "loaded"
    /\ ld.sku = <<"F", "-", "1">>
    /\ ld.size = <<"4", "2", " ", "2", "/", "3">>
    /\ ld.inventory = <<"F", "-", "1", "-", "4", "2", "2", "/", "3">>
    /\ ld.loaded = ld.sku

====
